---- MODULE Spec2Model ----
(***************************************************************************)
(* A model of js-noise: the Noise state objects (CipherState,              *)
(* SymmetricState, HandshakeState), the Handshake driver, the message      *)
(* nametag buffer, the secure-transfer read/write path and the WakuPairing *)
(* driver.                                                                 *)
(*                                                                         *)
(* Byte strings are symbolic terms: a tuple whose first element is a       *)
(* string tag.  Two terms are equal exactly when they were built the same  *)
(* way, which is the behaviour of SHA-256, HKDF, X25519 and                *)
(* ChaCha20-Poly1305 up to negligible collisions.                          *)
(***************************************************************************)
EXTENDS Integers, Sequences, FiniteSets, TLC

(***************************************************************************)
(* Symbolic byte strings                                                   *)
(***************************************************************************)

\* new Uint8Array(): the empty byte string
Empty == <<"empty">>

\* an absent optional field (undefined)
Undef == <<"undef">>

\* noise.ts createEmptyKey: 32 zero bytes
createEmptyKey == <<"zero">>

isEmptyKey(k) == k = createEmptyKey

\* an X25519 private key and its public key
Priv(i) == <<"sk", i>>
Pub(i) == <<"pk", i>>
KeyPair(i) == [publicKey |-> Pub(i), privateKey |-> Priv(i)]
NoKeyPair == [publicKey |-> Undef, privateKey |-> Undef]

\* 32 random bytes
Rnd(i) == <<"rnd", i>>

Curve25519KeySize == 32
ChachaPolyTagLen == 16
MessageNametagLength == 16
NoisePaddingBlockSize == 248

\* F of the value of x, the value being computed once however often F
\* refers to it
Then(x, F(_)) == CHOOSE y \in {F(v) : v \in {x}} : TRUE

RECURSIVE byteLength(_)
\* the length in bytes of a byte string
byteLength(t) ==
  CASE t[1] = "empty" -> 0
    [] t[1] = "undef" -> 0
    [] t[1] = "tag" -> MessageNametagLength
    [] t[1] = "aead" -> byteLength(t[5]) + ChachaPolyTagLen
    [] t[1] = "cat" -> byteLength(t[2]) + byteLength(t[3])
    [] t[1] = "pad" -> NoisePaddingBlockSize * ((byteLength(t[2]) \div NoisePaddingBlockSize) + 1)
    [] t[1] = "unpadded" -> byteLength(t[2]) - 1
    [] t[1] = "nt" -> MessageNametagLength
    [] t[1] = "zero16" -> MessageNametagLength
    [] t[1] = "le" -> 8
    [] t[1] = "name" -> t[3]
    [] t[1] = "namepad" -> 32
    [] t[1] = "flip" -> byteLength(t[2])
    [] t[1] = "bytes" -> t[2]
    [] t[1] = "frag" -> t[2]
    [] OTHER -> 32

\* uint8ArrayConcat([a, b])
Cat(a, b) == IF b = Empty THEN a ELSE IF a = Empty THEN b ELSE <<"cat", a, b>>

\* crypto hashSHA256
hashSHA256(data) == <<"h", data>>

\* crypto commitPublicKey: H(pk || r)
commitPublicKey(publicKey, r) == hashSHA256(Cat(publicKey, r))

\* HKDF-SHA256 with salt ck: the i-th 32-byte output block
getHKDF(ck, ikm, i) == <<"kdf", ck, ikm, i>>

\* X25519: dh(a, pub(b)) = dh(b, pub(a)); on a malformed public key the
\* result is some other 32 bytes
dh(privateKey, publicKey) ==
  IF privateKey[1] = "sk" /\ publicKey[1] = "pk"
  THEN <<"dh", IF privateKey[2] < publicKey[2] THEN privateKey[2] ELSE publicKey[2],
               IF privateKey[2] < publicKey[2] THEN publicKey[2] ELSE privateKey[2]>>
  ELSE <<"dhx", privateKey, publicKey>>

\* ChaCha20-Poly1305 seal
chaCha20Poly1305Encrypt(plaintext, nonce, ad, k) == <<"aead", k, nonce, ad, plaintext>>

\* ChaCha20-Poly1305 open succeeds only under the key, nonce and associated
\* data of the seal
CanDecrypt(ciphertext, nonce, ad, k) ==
  /\ ciphertext[1] = "aead"
  /\ ciphertext[2] = k
  /\ ciphertext[3] = nonce
  /\ ciphertext[4] = ad

\* an open that tests no tag: a ciphertext with a flipped byte opens to the
\* plaintext with that byte flipped
chaCha20Poly1305DecryptNoTag(ciphertext, nonce, ad, k) ==
  IF CanDecrypt(ciphertext, nonce, ad, k) THEN ciphertext[5]
  ELSE IF /\ ciphertext[1] = "flip"
          /\ CanDecrypt(ciphertext[2], nonce, ad, k)
          /\ ciphertext[2][5][1] = "pad"
  THEN <<"pad", <<"flip", ciphertext[2][5][2]>>>>
  ELSE Undef

chaCha20Poly1305Decrypt(ciphertext, nonce, ad, k) ==
  IF CanDecrypt(ciphertext, nonce, ad, k) THEN ciphertext[5] ELSE Undef

\* pkcs7.pad(data, 248)
pkcs7pad(data) == <<"pad", data>>

\* pkcs7.unpad(data): drops as many trailing bytes as the last byte says; on
\* data that was never padded this cuts the data short
pkcs7unpad(data) ==
  IF data[1] = "pad" THEN data[2]
  ELSE IF data = Empty THEN Empty
  ELSE <<"unpadded", data>>

\* dh25519 intoKey / crypto intoCurve25519Key: a length check, the same bytes
intoKeyOk(s) == byteLength(s) = Curve25519KeySize

(***************************************************************************)
(* Nonce                                                                   *)
(***************************************************************************)

\* the largest nonce value assertValue accepts: 0xffffffff in the program,
\* scaled down here to a value above the nametag buffer size
MAX_NONCE == 64

\* Nonce.assertValue passes
NonceValid(n) == n <= MAX_NONCE

(***************************************************************************)
(* CipherState (noise.ts)                                                  *)
(***************************************************************************)

NewCipherState(k) == [k |-> k, n |-> 0]

hasKey(cs) == ~isEmptyKey(cs.k)

\* encryptWithAd without the call of n.increment()
encryptWithAdNoIncrement(cs, ad, plaintext) ==
  IF ~NonceValid(cs.n) THEN [err |-> "nonce", cs |-> cs, out |-> Undef]
  ELSE IF hasKey(cs)
  THEN [err |-> "", cs |-> cs,
        out |-> chaCha20Poly1305Encrypt(plaintext, cs.n, ad, cs.k)]
  ELSE [err |-> "", cs |-> cs, out |-> plaintext]

\* encryptWithAd without the assertValue() call that opens it
encryptWithAdUnchecked(cs, ad, plaintext) ==
  IF hasKey(cs)
  THEN LET ciphertext == chaCha20Poly1305Encrypt(plaintext, cs.n, ad, cs.k)
           cs2 == [cs EXCEPT !.n = cs.n + 1]
       IN IF NonceValid(cs2.n)
          THEN [err |-> "", cs |-> cs2, out |-> ciphertext]
          ELSE [err |-> "nonce", cs |-> cs2, out |-> Undef]
  ELSE [err |-> "", cs |-> cs, out |-> plaintext]

\* encryptWithAd without the assertValue() call that follows n.increment()
encryptWithAdNoReassert(cs, ad, plaintext) ==
  IF ~NonceValid(cs.n) THEN [err |-> "nonce", cs |-> cs, out |-> Undef]
  ELSE IF hasKey(cs)
  THEN [err |-> "", cs |-> [cs EXCEPT !.n = cs.n + 1],
        out |-> chaCha20Poly1305Encrypt(plaintext, cs.n, ad, cs.k)]
  ELSE [err |-> "", cs |-> cs, out |-> plaintext]

\* encryptWithAd calling n.increment() on the path of the empty key too
encryptWithAdCountingUnkeyed(cs, ad, plaintext) ==
  IF ~NonceValid(cs.n) THEN [err |-> "nonce", cs |-> cs, out |-> Undef]
  ELSE IF hasKey(cs)
  THEN LET ciphertext == chaCha20Poly1305Encrypt(plaintext, cs.n, ad, cs.k)
           cs2 == [cs EXCEPT !.n = cs.n + 1]
       IN IF NonceValid(cs2.n)
          THEN [err |-> "", cs |-> cs2, out |-> ciphertext]
          ELSE [err |-> "nonce", cs |-> cs2, out |-> Undef]
  ELSE [err |-> "", cs |-> [cs EXCEPT !.n = cs.n + 1], out |-> plaintext]

\* CipherState.encryptWithAd: the result, the cipher state afterwards and
\* the error thrown ("" for none)
encryptWithAd(cs, ad, plaintext) ==
  IF ~NonceValid(cs.n) THEN [err |-> "nonce", cs |-> cs, out |-> Undef]
  ELSE IF hasKey(cs)
  THEN LET ciphertext == chaCha20Poly1305Encrypt(plaintext, cs.n, ad, cs.k)
           cs2 == [cs EXCEPT !.n = cs.n + 1]
       IN IF NonceValid(cs2.n)
          THEN [err |-> "", cs |-> cs2, out |-> ciphertext]
          ELSE [err |-> "nonce", cs |-> cs2, out |-> Undef]
  ELSE [err |-> "", cs |-> cs, out |-> plaintext]

\* decryptWithAd without the assertValue() call that opens it
decryptWithAdUnchecked(cs, ad, ciphertext) ==
  IF hasKey(cs)
  THEN LET plaintext == chaCha20Poly1305Decrypt(ciphertext, cs.n, ad, cs.k)
           cs2 == [cs EXCEPT !.n = cs.n + 1]
       IN IF plaintext = Undef
          THEN [err |-> "decrypt", cs |-> cs, out |-> Undef]
          ELSE IF NonceValid(cs2.n)
          THEN [err |-> "", cs |-> cs2, out |-> plaintext]
          ELSE [err |-> "nonce", cs |-> cs2, out |-> Undef]
  ELSE [err |-> "", cs |-> cs, out |-> ciphertext]

\* decryptWithAd calling n.increment() before the test of the plaintext
decryptWithAdCountingFailures(cs, ad, ciphertext) ==
  IF ~NonceValid(cs.n) THEN [err |-> "nonce", cs |-> cs, out |-> Undef]
  ELSE IF hasKey(cs)
  THEN LET plaintext == chaCha20Poly1305Decrypt(ciphertext, cs.n, ad, cs.k)
           cs2 == [cs EXCEPT !.n = cs.n + 1]
       IN IF plaintext = Undef
          THEN [err |-> "decrypt", cs |-> cs2, out |-> Undef]
          ELSE IF NonceValid(cs2.n)
          THEN [err |-> "", cs |-> cs2, out |-> plaintext]
          ELSE [err |-> "nonce", cs |-> cs2, out |-> Undef]
  ELSE [err |-> "", cs |-> cs, out |-> ciphertext]

\* CipherState.decryptWithAd
decryptWithAd(cs, ad, ciphertext) ==
  IF ~NonceValid(cs.n) THEN [err |-> "nonce", cs |-> cs, out |-> Undef]
  ELSE IF hasKey(cs)
  THEN LET plaintext == chaCha20Poly1305Decrypt(ciphertext, cs.n, ad, cs.k)
           cs2 == [cs EXCEPT !.n = cs.n + 1]
       IN IF plaintext = Undef
          THEN [err |-> "decrypt", cs |-> cs, out |-> Undef]
          ELSE IF NonceValid(cs2.n)
          THEN [err |-> "", cs |-> cs2, out |-> plaintext]
          ELSE [err |-> "nonce", cs |-> cs2, out |-> Undef]
  ELSE [err |-> "", cs |-> cs, out |-> ciphertext]

\* CipherState.setNonce
setNonce(cs, nonce) == [cs EXCEPT !.n = nonce]

\* CipherState.setCipherStateKey
setCipherStateKey(cs, key) == [cs EXCEPT !.k = key]

(***************************************************************************)
(* Handshake patterns (patterns.ts)                                        *)
(***************************************************************************)

\* MessageDirection.r is "->", MessageDirection.l is "<-"
MessagePattern(direction, tokens) == [direction |-> direction, tokens |-> tokens]

\* PayloadV2ProtocolIDs of the five handshake patterns
PatternIds == {10, 11, 12, 13, 14}

\* the protocol name of a pattern, with its length in bytes
PatternName(id) ==
  CASE id = 10 -> <<"name", 10, 34>>
    [] id = 11 -> <<"name", 11, 33>>
    [] id = 12 -> <<"name", 12, 32>>
    [] id = 13 -> <<"name", 13, 36>>
    [] id = 14 -> <<"name", 14, 41>>

\* name.indexOf("psk") > -1
NameHasPsk(name) == name[2] = 13

EmptyPreMessage == <<>>

\* NoiseHandshakePatterns: K1K1 (10), XK1 (11), XX (12), XXpsk0 (13),
\* WakuPairing (14)
NoiseHandshakePatterns(id) ==
  CASE id = 10 ->
         [name |-> PatternName(10),
          preMessagePatterns |-> <<MessagePattern("->", <<"s">>),
                                   MessagePattern("<-", <<"s">>)>>,
          messagePatterns |-> <<MessagePattern("->", <<"e">>),
                                MessagePattern("<-", <<"e", "ee", "es">>),
                                MessagePattern("->", <<"se">>)>>]
    [] id = 11 ->
         [name |-> PatternName(11),
          preMessagePatterns |-> <<MessagePattern("<-", <<"s">>)>>,
          messagePatterns |-> <<MessagePattern("->", <<"e">>),
                                MessagePattern("<-", <<"e", "ee", "es">>),
                                MessagePattern("->", <<"s", "se">>)>>]
    [] id = 12 ->
         [name |-> PatternName(12),
          preMessagePatterns |-> EmptyPreMessage,
          messagePatterns |-> <<MessagePattern("->", <<"e">>),
                                MessagePattern("<-", <<"e", "ee", "s", "es">>),
                                MessagePattern("->", <<"s", "se">>)>>]
    [] id = 13 ->
         [name |-> PatternName(13),
          preMessagePatterns |-> EmptyPreMessage,
          messagePatterns |-> <<MessagePattern("->", <<"psk", "e">>),
                                MessagePattern("<-", <<"e", "ee", "s", "es">>),
                                MessagePattern("->", <<"s", "se">>)>>]
    [] id = 14 ->
         [name |-> PatternName(14),
          preMessagePatterns |-> <<MessagePattern("<-", <<"e">>)>>,
          messagePatterns |-> <<MessagePattern("->", <<"e", "ee">>),
                                MessagePattern("<-", <<"s", "es">>),
                                MessagePattern("->", <<"s", "se", "ss">>)>>]

\* PayloadV2ProtocolIDs[name]: the id of the table for the names of the
\* five patterns; for any other name the object has no such property and
\* the value is undefined, written -1 here
PayloadV2ProtocolIDs(name) == IF name[2] \in PatternIds THEN name[2] ELSE -1

\* a pattern built with new HandshakePattern under a name that the table
\* does not hold, Noise_NN_25519_ChaChaPoly_SHA256
CustomPattern ==
  [name |-> <<"name", 1, 32>>,
   preMessagePatterns |-> EmptyPreMessage,
   messagePatterns |-> <<MessagePattern("->", <<"e">>),
                         MessagePattern("<-", <<"e", "ee">>)>>]

(***************************************************************************)
(* SymmetricState (noise.ts)                                               *)
(***************************************************************************)

hashProtocol(name) ==
  IF byteLength(name) <= 32 THEN <<"namepad", name[2]>> ELSE hashSHA256(name)

NewSymmetricState(hsPattern) ==
  [cs |-> NewCipherState(createEmptyKey),
   ck |-> hashProtocol(hsPattern.name),
   h |-> hashProtocol(hsPattern.name)]

mixKey(ss, inputKeyMaterial) ==
  [ss EXCEPT !.cs = NewCipherState(getHKDF(ss.ck, inputKeyMaterial, 2)),
             !.ck = getHKDF(ss.ck, inputKeyMaterial, 1)]

mixHash(ss, data) == [ss EXCEPT !.h = hashSHA256(Cat(ss.h, data))]

mixKeyAndHash(ss, inputKeyMaterial) ==
  [cs |-> NewCipherState(getHKDF(ss.ck, inputKeyMaterial, 3)),
   ck |-> getHKDF(ss.ck, inputKeyMaterial, 1),
   h |-> hashSHA256(Cat(ss.h, getHKDF(ss.ck, inputKeyMaterial, 2)))]

\* after encryptWithAd or decryptWithAd returned r: on an error h is left
\* alone, otherwise data enters mixHash
HashResult(ss, r, data) ==
  IF r.err # ""
  THEN [err |-> r.err, ss |-> [ss EXCEPT !.cs = r.cs], out |-> Undef]
  ELSE [err |-> "", ss |-> mixHash([ss EXCEPT !.cs = r.cs], data), out |-> r.out]

\* the ciphertext enters mixHash
HashCiphertext(ss, r) == HashResult(ss, r, r.out)

\* encryptAndHash with the plaintext entering mixHash
encryptAndHashOfPlaintext(ss, plaintext, extraAd) ==
  HashResult(ss, encryptWithAd(ss.cs, Cat(ss.h, extraAd), plaintext), plaintext)

\* SymmetricState.encryptAndHash
encryptAndHash(ss, plaintext, extraAd) ==
  HashCiphertext(ss, encryptWithAd(ss.cs, Cat(ss.h, extraAd), plaintext))

\* decryptAndHash with the plaintext entering mixHash
decryptAndHashOfPlaintext(ss, ciphertext, extraAd) ==
  HashCiphertext(ss, decryptWithAd(ss.cs, Cat(ss.h, extraAd), ciphertext))

\* SymmetricState.decryptAndHash: the ciphertext enters mixHash
decryptAndHash(ss, ciphertext, extraAd) ==
  HashResult(ss, decryptWithAd(ss.cs, Cat(ss.h, extraAd), ciphertext), ciphertext)

split(ss) ==
  [cs1 |-> NewCipherState(getHKDF(ss.ck, Empty, 1)),
   cs2 |-> NewCipherState(getHKDF(ss.ck, Empty, 2))]

(***************************************************************************)
(* NoisePublicKey (crypto.ts)                                              *)
(***************************************************************************)

\* new NoisePublicKey(flag, pk).  obj tells which array object pk is: the
\* local ephemeral public key ("e"), the local static public key ("s") or
\* any other array ("other"); two arrays are == only if they are one object.
NoisePublicKey(flag, pk, obj) == [flag |-> flag, pk |-> pk, obj |-> obj]

\* NoisePublicKey.to / NoisePublicKey.fromPublicKey
fromPublicKey(publicKey, obj) == NoisePublicKey(0, publicKey, obj)

(***************************************************************************)
(* HandshakeState (handshake.ts)                                           *)
(***************************************************************************)

\* src/ holds two revisions of handshake.js: the HandshakeState and Handshake
\* classes of src/src/handshake.ts ("src"), and the classes the WakuPairing
\* driver imports, with MessageNametagError, genAuthcode and toMessageNametag
\* ("spec"), whose source is not in src/ and which follow the specification
\* where it differs from src/src/handshake.ts.  The field revision tells of
\* which of the two a handshake state is an instance.
NewHandshakeState(hsPattern, psk) ==
  [revision |-> "src",
   s |-> NoKeyPair, e |-> NoKeyPair, rs |-> Undef, re |-> Undef,
   ss |-> NewSymmetricState(hsPattern),
   initiator |-> FALSE,
   handshakePattern |-> hsPattern,
   msgPatternIdx |-> 0,
   psk |-> psk]

\* getReadingWritingState(direction).reading; writing is its negation for
\* the two directions there are
Reading(hs, direction) ==
  \/ hs.initiator /\ direction = "<-"
  \/ ~hs.initiator /\ direction = "->"

RECURSIVE Flatten(_)
\* the tokens of a list of patterns, each with its pattern's direction
Flatten(patterns) ==
  IF patterns = <<>> THEN <<>>
  ELSE [i \in 1..Len(Head(patterns).tokens) |->
          [direction |-> Head(patterns).direction, token |-> Head(patterns).tokens[i]]]
       \o Flatten(Tail(patterns))

\* isValid: each pre-message pattern is "e", "s" or "e, s"
isValid(msg) ==
  \A i \in 1..Len(msg) : msg[i].tokens \in {<<"s">>, <<"e">>, <<"e", "s">>}

Throw(st, err) == [st EXCEPT !.err = err]

\* one token of a pre-message pattern; st is the handshake state, the
\* caller's key list and the error thrown so far
PreMessageToken(st, direction, token) ==
  LET hs == st.hs
      currPK == st.pks[1]
      psk(ss) == IF NameHasPsk(hs.handshakePattern.name) THEN mixKey(ss, currPK.pk) ELSE ss
  IN IF token \notin {"e", "s"} THEN Throw(st, "invalid Token for pre-message pattern")
     ELSE IF Len(st.pks) = 0 THEN Throw(st, "noise pre-message read, expected a public key")
     ELSE IF Reading(hs, direction)
     THEN IF currPK.flag # 0
          THEN Throw(st, "incorrect encryption flag for pre-message public key")
          ELSE IF ~intoKeyOk(currPK.pk) THEN Throw(st, "invalid public key length")
          ELSE [st EXCEPT
                  !.hs = [hs EXCEPT !.re = IF token = "e" THEN currPK.pk ELSE @,
                                    !.rs = IF token = "s" THEN currPK.pk ELSE @,
                                    !.ss = psk(mixHash(hs.ss, currPK.pk))],
                  !.pks = Tail(st.pks)]
     ELSE IF token = "e" /\ hs.e = NoKeyPair
          THEN Throw(st, "noise pre-message e key doesn't correspond to locally set e key pair")
     ELSE IF token = "s" /\ hs.s = NoKeyPair
          THEN Throw(st, "noise pre-message s key doesn't correspond to locally set s key pair")
     ELSE IF ~intoKeyOk(currPK.pk) THEN Throw(st, "invalid public key length")
     ELSE IF currPK.obj # token
          THEN Throw(st, "noise pre-message key doesn't correspond to locally set key pair")
     ELSE [st EXCEPT
             !.hs = [hs EXCEPT
                       !.ss = psk(mixHash(hs.ss, IF token = "e" THEN hs.e.publicKey
                                                 ELSE hs.s.publicKey))],
             !.pks = Tail(st.pks)]

RECURSIVE PreMessageTokens(_, _)
PreMessageTokens(st, tokens) ==
  IF tokens = <<>> \/ st.err # "" THEN st
  ELSE PreMessageTokens(PreMessageToken(st, Head(tokens).direction, Head(tokens).token),
                        Tail(tokens))

\* HandshakeState.processPreMessagePatternTokens: the keys are shifted off
\* the caller's own array (const preMessagePKs = inPreMessagePKs)
processPreMessagePatternTokens(hs, inPreMessagePKs) ==
  LET st == [err |-> "", hs |-> hs, pks |-> inPreMessagePKs]
  IN IF hs.handshakePattern.preMessagePatterns = EmptyPreMessage THEN st
     ELSE IF ~isValid(hs.handshakePattern.preMessagePatterns)
     THEN Throw(st, "invalid pre-message in handshake")
     ELSE PreMessageTokens(st, Flatten(hs.handshakePattern.preMessagePatterns))

\* MixKey(key) in a PSK handshake, after the "e" token
MixKeyIfPsk(hs, ss, key) ==
  IF NameHasPsk(hs.handshakePattern.name) THEN mixKey(ss, key) ELSE ss

\* reading an unencrypted public key (flag 0): the token sets re or rs
ReadPlainKey(st, token, currPK) ==
  IF ~intoKeyOk(currPK.pk) THEN Throw(st, "invalid public key length")
  ELSE [st EXCEPT
          !.hs = [st.hs EXCEPT
                    !.re = IF token = "e" THEN currPK.pk ELSE @,
                    !.rs = IF token = "s" THEN currPK.pk ELSE @,
                    !.ss = IF token = "e"
                           THEN MixKeyIfPsk(st.hs, mixHash(st.hs.ss, currPK.pk), currPK.pk)
                           ELSE mixHash(st.hs.ss, currPK.pk)],
          !.inMsg = Tail(st.inMsg)]

\* reading an encrypted public key (flag 1); d is what decryptAndHash gave
ReadEncryptedKey(st, token, d) ==
  IF d.err # "" THEN [st EXCEPT !.err = d.err, !.hs.ss = d.ss]
  ELSE IF ~intoKeyOk(d.out)
  THEN [st EXCEPT !.err = "invalid public key length", !.hs.ss = d.ss]
  ELSE [st EXCEPT
          !.hs = [st.hs EXCEPT
                    !.re = IF token = "e" THEN d.out ELSE @,
                    !.rs = IF token = "s" THEN d.out ELSE @,
                    !.ss = IF token = "e" THEN MixKeyIfPsk(st.hs, d.ss, d.out) ELSE d.ss],
          !.inMsg = Tail(st.inMsg)]

\* reading the "e" or the "s" token of a message pattern
ReadKey(st, token) ==
  IF Len(st.inMsg) = 0 THEN Throw(st, "noise read, expected a public key")
  ELSE IF st.inMsg[1].flag = 0 THEN ReadPlainKey(st, token, st.inMsg[1])
  ELSE IF st.inMsg[1].flag = 1
  THEN ReadEncryptedKey(st, token, decryptAndHash(st.hs.ss, st.inMsg[1].pk, Empty))
  ELSE Throw(st, "noise read, incorrect encryption flag for public key")

\* writing the "e" token; fresh is the private key that
\* generateX25519KeyPair draws
WriteE(st, fresh) ==
  [st EXCEPT
     !.hs = [st.hs EXCEPT
               !.e = KeyPair(fresh),
               !.ss = MixKeyIfPsk(st.hs, mixHash(st.hs.ss, Pub(fresh)), Pub(fresh))],
     !.outMsg = Append(st.outMsg, fromPublicKey(Pub(fresh), "e"))]

\* writing the "s" token once encryptAndHash(s.publicKey) gave encS: the
\* flag is 1 when encS is longer than a key
WriteEncS(st, encS) ==
  IF encS.err # "" THEN [st EXCEPT !.err = encS.err, !.hs.ss = encS.ss]
  ELSE [st EXCEPT
          !.hs.ss = encS.ss,
          !.outMsg = Append(st.outMsg,
                            NoisePublicKey(IF byteLength(encS.out) > Curve25519KeySize
                                           THEN 1 ELSE 0,
                                           encS.out, "other"))]

WriteS(st) ==
  IF st.hs.s = NoKeyPair THEN Throw(st, "static key not set")
  ELSE WriteEncS(st, encryptAndHash(st.hs.ss, st.hs.s.publicKey, Empty))

\* MixKey(DH(local private key, remote public key))
MixDH(st, local, remote) ==
  IF local = NoKeyPair \/ remote = Undef
  THEN Throw(st, "local or remote key not set")
  ELSE [st EXCEPT !.hs.ss = mixKey(st.hs.ss, dh(local.privateKey, remote))]

\* the tokens "ee", "es", "se", "ss": which of the local key pairs and which
\* of the remote keys enter the DH depends on the role
TokenDH(st, token) ==
  MixDH(st,
        IF \/ token = "ee"
           \/ token = "es" /\ st.hs.initiator
           \/ token = "se" /\ ~st.hs.initiator
        THEN st.hs.e ELSE st.hs.s,
        IF \/ token = "ee"
           \/ token = "es" /\ ~st.hs.initiator
           \/ token = "se" /\ st.hs.initiator
        THEN st.hs.re ELSE st.hs.rs)

ProcessToken(st, token, reading, fresh) ==
  CASE token \in {"e", "s"} /\ reading -> ReadKey(st, token)
    [] token = "e" /\ ~reading -> WriteE(st, fresh)
    [] token = "s" /\ ~reading -> WriteS(st)
    [] token = "psk" -> [st EXCEPT !.hs.ss = mixKeyAndHash(st.hs.ss, st.hs.psk)]
    [] OTHER -> TokenDH(st, token)

RECURSIVE ProcessTokens(_, _, _, _)
ProcessTokens(st, tokens, reading, fresh) ==
  IF tokens = <<>> \/ st.err # "" THEN st
  ELSE Then(ProcessToken(st, Head(tokens), reading, fresh),
            LAMBDA next : ProcessTokens(next, Tail(tokens), reading, fresh))

\* HandshakeState.processMessagePatternTokens: the handshake state after
\* the tokens of the current message pattern, the public keys written and
\* what is left of the list read
processMessagePatternTokens(hs, inputHandshakeMessage, fresh) ==
  LET messagePattern == hs.handshakePattern.messagePatterns[hs.msgPatternIdx + 1]
  IN ProcessTokens([err |-> "", hs |-> hs, inMsg |-> inputHandshakeMessage, outMsg |-> <<>>],
                   messagePattern.tokens, Reading(hs, messagePattern.direction), fresh)

\* the state and the payload after encryptAndHash or decryptAndHash gave r
PayloadResult(hs, r, out) ==
  [err |-> r.err, hs |-> [hs EXCEPT !.ss = r.ss], out |-> IF r.err = "" THEN out ELSE Undef]

PaddedPayload(hs, d) == PayloadResult(hs, d, pkcs7pad(d.out))

EncryptedPayload(hs, c) == PayloadResult(hs, c, c.out)

\* HandshakeState.processMessagePatternPayload: the reader decrypts and then
\* pads, the writer unpads and then encrypts
processMessagePatternPayload(hs, transportMessage, extraAd) ==
  IF Reading(hs, hs.handshakePattern.messagePatterns[hs.msgPatternIdx + 1].direction)
  THEN PaddedPayload(hs, decryptAndHash(hs.ss, transportMessage, extraAd))
  ELSE EncryptedPayload(hs, encryptAndHash(hs.ss, pkcs7unpad(transportMessage), extraAd))

\* the payload after decryptAndHash gave d, unpadded: unpad rejects what is
\* not padded
UnpaddedPayload(hs, d) ==
  IF d.err = "" /\ d.out[1] # "pad"
  THEN [err |-> "InvalidPadding", hs |-> [hs EXCEPT !.ss = d.ss], out |-> Undef]
  ELSE PayloadResult(hs, d, pkcs7unpad(d.out))

\* processMessagePatternPayload of revision "spec": the writer pads and then
\* encrypts, the reader decrypts and then unpads
processMessagePatternPayloadSpec(hs, transportMessage, extraAd) ==
  IF Reading(hs, hs.handshakePattern.messagePatterns[hs.msgPatternIdx + 1].direction)
  THEN UnpaddedPayload(hs, decryptAndHash(hs.ss, transportMessage, extraAd))
  ELSE EncryptedPayload(hs, encryptAndHash(hs.ss, pkcs7pad(transportMessage), extraAd))

\* hs.processMessagePatternPayload of the revision hs is an instance of
ProcessPayload(hs, transportMessage, extraAd) ==
  IF hs.revision = "spec"
  THEN processMessagePatternPayloadSpec(hs, transportMessage, extraAd)
  ELSE processMessagePatternPayload(hs, transportMessage, extraAd)

(***************************************************************************)
(* MessageNametagBuffer and PayloadV2 (payload.ts)                         *)
(***************************************************************************)

MessageNametagBufferSize == 50

\* input.subarray(0, MessageNametagLength)
toMessageNametag(input) ==
  IF byteLength(input) <= MessageNametagLength THEN input ELSE <<"tag", input>>

\* the nametag of counter value c: the first 16 bytes of H(secret || c as
\* 8 little-endian bytes)
DeriveNametag(secret, c) == toMessageNametag(hashSHA256(Cat(secret, <<"le", c>>)))

\* new MessageNametagBuffer(): 50 all-zero nametags, no secret
NewMessageNametagBuffer ==
  [buffer |-> [i \in 1..MessageNametagBufferSize |-> <<"zero16">>],
   counter |-> 0,
   secret |-> Undef]

\* initNametagsBuffer: without a secret the new array keeps its 50 holes
initNametagsBuffer(b) ==
  IF b.secret # Undef
  THEN [b EXCEPT !.buffer = [i \in 1..MessageNametagBufferSize |-> DeriveNametag(b.secret, i - 1)],
                 !.counter = MessageNametagBufferSize]
  ELSE [b EXCEPT !.buffer = [i \in 1..MessageNametagBufferSize |-> Undef],
                 !.counter = 0]

Min(a, b) == IF a < b THEN a ELSE b

RECURSIVE RotateLeft(_, _)
\* n times: const first = buffer.shift(); if (first) buffer.push(first)
RotateLeft(buffer, n) ==
  IF n = 0 \/ buffer = <<>> THEN buffer
  ELSE RotateLeft(IF Head(buffer) # Undef THEN Append(Tail(buffer), Head(buffer))
                  ELSE Tail(buffer), n - 1)

\* delete that rotates the buffer and derives no new nametags
deleteRotatingOnly(b, n) ==
  IF n <= 0 \/ b.secret = Undef THEN b
  ELSE [b EXCEPT !.buffer = RotateLeft(b.buffer, Min(n, MessageNametagBufferSize))]

\* MessageNametagBuffer.delete(n)
delete(b, n) ==
  IF n <= 0 \/ b.secret = Undef THEN b
  ELSE LET m == Min(n, MessageNametagBufferSize)
           rotated == RotateLeft(b.buffer, m)
           len == Len(rotated)
       IN [b EXCEPT
             !.buffer = [i \in 1..len |->
                           IF i > len - m
                           THEN DeriveNametag(b.secret, b.counter + (i - (len - m)) - 1)
                           ELSE rotated[i]],
             !.counter = b.counter + m]

\* pop that leaves the first nametag in the buffer
popNoDelete(b) ==
  [out |-> IF b.buffer[1] = Undef THEN Empty ELSE b.buffer[1], b |-> b]

\* MessageNametagBuffer.pop: a copy of the first nametag (an empty array
\* when the slot is a hole), then delete(1)
pop(b) ==
  [out |-> IF b.buffer[1] = Undef THEN Empty ELSE b.buffer[1], b |-> delete(b, 1)]

\* buffer.findIndex(x => uint8ArrayEquals(x, messageNametag)), counted from
\* 0; -1 when there is none
FindIndex(buffer, messageNametag) ==
  IF \E i \in 1..Len(buffer) : buffer[i] = messageNametag
  THEN (CHOOSE i \in 1..Len(buffer) :
          /\ buffer[i] = messageNametag
          /\ \A j \in 1..(i - 1) : buffer[j] # messageNametag) - 1
  ELSE -1

\* MessageNametagBuffer.checkNametag: uint8ArrayEquals on a hole of the
\* array throws a TypeError
checkNametag(b, messageNametag) ==
  IF \E i \in 1..Len(b.buffer) :
       /\ b.buffer[i] = Undef
       /\ \A j \in 1..(i - 1) : b.buffer[j] # messageNametag
  THEN [err |-> "TypeError", ok |-> FALSE]
  ELSE [err |-> "", ok |-> FindIndex(b.buffer, messageNametag) = 0]

\* new PayloadV2(messageNametag, protocolId, handshakeMessage, transportMessage)
PayloadV2(messageNametag, protocolId, handshakeMessage, transportMessage) ==
  [messageNametag |-> messageNametag, protocolId |-> protocolId,
   handshakeMessage |-> handshakeMessage, transportMessage |-> transportMessage]

\* new PayloadV2()
DefaultPayloadV2 == PayloadV2(<<"zero16">>, 0, <<>>, Empty)

RECURSIVE serializedHandshakeMessageLen(_)
\* the bytes of the serialized public keys: a flag byte and the key, each
serializedHandshakeMessageLen(handshakeMessage) ==
  IF handshakeMessage = <<>> THEN 0
  ELSE 1 + byteLength(Head(handshakeMessage).pk)
       + serializedHandshakeMessageLen(Tail(handshakeMessage))

\* n bytes of value b
Bytes(n, b) == IF n = 0 THEN Empty ELSE <<"bytes", n, b>>

\* PayloadV2.serialize: nametag, protocol id, length of the keys in one
\* byte, the keys as (flag, key), the transport message length in 8 bytes
\* little-endian, transport message.  The serialized payload is kept as its
\* fields, the two lengths it declares being the last two
\* new Uint8Array([x]): the byte of a number, 0 for undefined
ToUint8(x) == IF x < 0 THEN 0 ELSE x % 256

serialize(p) ==
  IF serializedHandshakeMessageLen(p.handshakeMessage) > 255
  THEN [err |-> "too many public keys in handshake message", bytes |-> Undef]
  ELSE [err |-> "",
        bytes |-> <<"wire", p.messageNametag, ToUint8(p.protocolId),
                    [i \in 1..Len(p.handshakeMessage) |->
                       NoisePublicKey(IF p.handshakeMessage[i].flag # 0 THEN 1 ELSE 0,
                                      p.handshakeMessage[i].pk, "other")],
                    p.transportMessage,
                    serializedHandshakeMessageLen(p.handshakeMessage),
                    byteLength(p.transportMessage)>>]

\* the length of the serialized payload
WireLength(payload) ==
  byteLength(payload[2]) + 2 + serializedHandshakeMessageLen(payload[4]) + 8
  + byteLength(payload[5])

\* the protocol ids deserialize finds in PayloadV2ProtocolIDs
KnownProtocolIds == {0, 10, 11, 12, 13, 14, 30}

\* the fields sit where deserialize reads them: a nametag of 16 bytes, and
\* keys of 32 bytes with flag 0 and of 48 bytes with flag 1
WireAligned(payload) ==
  /\ byteLength(payload[2]) = MessageNametagLength
  /\ \A i \in 1..Len(payload[4]) :
       byteLength(payload[4][i].pk) =
         Curve25519KeySize + (IF payload[4][i].flag = 1 THEN ChachaPolyTagLen ELSE 0)

\* where the keys start, where the 8 bytes of the transport message length
\* start, and where the transport message starts
KeysStart == MessageNametagLength + 2
LengthStart(payload) == KeysStart + serializedHandshakeMessageLen(payload[4])
MessageStart(payload) == LengthStart(payload) + 8

\* payload[x], counted from 0: -1 beyond the end (undefined), the flag at
\* the start of a key, the bytes of the length field, and the bytes of a
\* transport message Bytes(n, b); bytes whose value the model does not
\* carry (keys, sealed messages) count as 255, neither 0 nor 1
ByteAt(payload, x) ==
  LET keys == payload[4]
      starts(j) == KeysStart + serializedHandshakeMessageLen(SubSeq(keys, 1, j - 1))
      k == x - LengthStart(payload)
  IN IF x >= WireLength(payload) THEN -1
     ELSE IF x >= MessageStart(payload)
     THEN (IF payload[5][1] = "bytes" THEN payload[5][3] ELSE 255)
     ELSE IF k >= 0
     THEN (IF k = 0 THEN payload[7] % 256
           ELSE IF k = 1 THEN (payload[7] \div 256) % 256
           ELSE IF k = 2 THEN (payload[7] \div 65536) % 256
           ELSE 0)
     ELSE IF \E j \in 1..Len(keys) : starts(j) = x
     THEN keys[CHOOSE j \in 1..Len(keys) : starts(j) = x].flag
     ELSE 255

\* payload.subarray(from, to)
Slice(payload, from, to) ==
  LET end == Min(to, WireLength(payload))
  IN IF end <= from THEN Empty
     ELSE IF from = MessageStart(payload) /\ end = WireLength(payload) THEN payload[5]
     ELSE IF from >= MessageStart(payload) /\ payload[5][1] = "bytes"
     THEN Bytes(end - from, payload[5][3])
     ELSE <<"frag", end - from, payload, from>>

\* NoisePublicKey.deserialize(payload.subarray(x, x + pkLen)) for a flag of
\* 0 or 1 at x
KeyAt(payload, x, pkLen) ==
  LET keys == payload[4]
      starts(j) == KeysStart + serializedHandshakeMessageLen(SubSeq(keys, 1, j - 1))
  IN IF \E j \in 1..Len(keys) : starts(j) = x
     THEN NoisePublicKey(ByteAt(payload, x),
                         keys[CHOOSE j \in 1..Len(keys) : starts(j) = x].pk, "other")
     ELSE NoisePublicKey(ByteAt(payload, x), Slice(payload, x + 1, x + pkLen), "other")

\* readUIntLE(payload, i, i + 8 - 1) without its bounds check: the bytes
\* payload[i .. i + byteLength - 1] with byteLength = i + 7, not 8, weighted
\* by mul = 1, 0x100, 0x10000, ... in floating point.  mul is Infinity from
\* the 129th byte on, where a byte of 0 makes the sum NaN and any other
\* Infinity; below that a byte other than 0 after the third makes the sum
\* larger than any payload
readUIntLEUnchecked(payload, i) ==
  LET byteLen == i + 8 - 1
      last == i + byteLen - 1
  IN IF \E x \in (i + 128)..last : ByteAt(payload, x) = 0 THEN [is |-> "NaN", n |-> 0]
     ELSE IF byteLen > 128 THEN [is |-> "Infinity", n |-> 0]
     ELSE IF \E x \in (i + 3)..last : ByteAt(payload, x) # 0 THEN [is |-> "Infinity", n |-> 0]
     ELSE [is |-> "number",
           n |-> ByteAt(payload, i) + 256 * ByteAt(payload, i + 1)
                 + 65536 * ByteAt(payload, i + 2)]

\* deserialize once the keys are read and the read position is i:
\* checkOffset(i, i + 7, length) throws unless i + 7 bytes follow position
\* i; the transport message is payload.subarray(i + 8, i + 8 + length read),
\* which is empty for NaN and is cut at the end of the payload
DeserializeAt(payload, keys, i) ==
  IF i + (i + 8 - 1) > WireLength(payload)
  THEN [err |-> "RangeError", payload |-> DefaultPayloadV2]
  ELSE LET transportMessageLen == readUIntLEUnchecked(payload, i)
       IN [err |-> "",
           payload |->
             PayloadV2(payload[2], payload[3], keys,
                       IF transportMessageLen.is = "NaN" THEN Empty
                       ELSE IF transportMessageLen.is = "Infinity"
                       THEN Slice(payload, i + 8, WireLength(payload))
                       ELSE Slice(payload, i + 8, i + 8 + transportMessageLen.n))]

RECURSIVE ReadKeysFrom(_, _, _, _)
\* the while loop of deserialize at position i with `written` bytes of keys
\* read: it ends when written is the declared length of the keys, and
\* throws on a flag that is neither 0 nor 1
ReadKeysFrom(payload, i, written, keys) ==
  IF written = payload[6] THEN DeserializeAt(payload, keys, i)
  ELSE IF ByteAt(payload, i) \notin {0, 1}
  THEN [err |-> "invalid flag for Noise public key", payload |-> DefaultPayloadV2]
  ELSE LET pkLen == 1 + Curve25519KeySize
                    + (IF ByteAt(payload, i) = 1 THEN ChachaPolyTagLen ELSE 0)
       IN ReadKeysFrom(payload, i + pkLen, written + pkLen,
                       Append(keys, KeyAt(payload, i, pkLen)))

\* PayloadV2.deserialize
deserialize(payload) ==
  IF ~WireAligned(payload) THEN [err |-> "malformed", payload |-> DefaultPayloadV2]
  ELSE IF payload[3] \notin KnownProtocolIds
  THEN [err |-> "protocolId not found", payload |-> DefaultPayloadV2]
  ELSE ReadKeysFrom(payload, KeysStart, 0, <<>>)

(***************************************************************************)
(* Handshake (handshake.ts)                                                *)
(***************************************************************************)

\* new Handshake(hsPattern, ephemeralKey, staticKey, prologue, psk,
\* preMessagePKs, initiator): the handshake state, what is left of the
\* caller's preMessagePKs and the error thrown
NewHandshake(hsPattern, ephemeralKey, staticKey, prologue, psk, preMessagePKs, initiator) ==
  LET hs0 == NewHandshakeState(hsPattern, psk)
      hs1 == [hs0 EXCEPT !.ss = mixHash(hs0.ss, prologue),
                         !.e = ephemeralKey,
                         !.s = staticKey,
                         !.initiator = initiator]
  IN processPreMessagePatternTokens(hs1, preMessagePKs)

\* a != b between the nametag of the payload read and the array that
\* toMessageNametag has just made with subarray(): two array objects are
\* compared by identity, and a new view is no other object, so the test is
\* true whatever bytes the two hold
NametagObjectsDiffer(readNametag, expectedNametag) == TRUE

\* the nametag test of the reading branch: revision "spec" compares the
\* bytes
NametagMismatch(hs, readNametag, expectedNametag) ==
  IF hs.revision = "spec" THEN readNametag # expectedNametag
  ELSE NametagObjectsDiffer(readNametag, expectedNametag)

\* what the reading branch throws on a mismatch: revision "src" throws a
\* string, revision "spec" a MessageNametagError
NametagError(hs) ==
  IF hs.revision = "spec" THEN "MessageNametagError"
  ELSE "The message nametag of the read message doesn't match the expected one"

\* the result of a step: HandshakeStepResult, the handshake state after the
\* call and the error thrown
StepResult(err, hs, payload2, transportMessage) ==
  [err |-> err, hs |-> hs, payload2 |-> payload2, transportMessage |-> transportMessage,
   at |-> ""]

\* the step threw what processMessagePatternTokens threw
TokenError(t) ==
  [StepResult(t.err, t.hs, DefaultPayloadV2, Empty) EXCEPT !.at = "tokens"]

\* the end of a step without the increment of msgPatternIdx
StepEndNoAdvance(p, payload2, transportMessage) ==
  IF p.err # "" THEN StepResult(p.err, p.hs, DefaultPayloadV2, Empty)
  ELSE StepResult("", p.hs, payload2, transportMessage)

\* the end of a step: p is what processMessagePatternPayload gave
StepEnd(p, payload2, transportMessage) ==
  IF p.err # "" THEN StepResult(p.err, p.hs, DefaultPayloadV2, Empty)
  ELSE StepResult("", [p.hs EXCEPT !.msgPatternIdx = @ + 1], payload2, transportMessage)

\* the writing branch once the payload is processed: the protocol id is
\* that of the name; the lookup is a property access, which never throws,
\* so the catch around it is never entered
WritePayloadEnd(p, nametag, handshakeMessage) ==
  StepEnd(p, PayloadV2(nametag, PayloadV2ProtocolIDs(p.hs.handshakePattern.name),
                       handshakeMessage, p.out),
          Empty)

\* the writing branch after processMessagePatternTokens gave t
WritePayload(t, transportMessage, nametag) ==
  IF t.err # "" THEN TokenError(t)
  ELSE Then(ProcessPayload(t.hs, transportMessage, nametag),
            LAMBDA p : WritePayloadEnd(p, nametag, t.outMsg))

\* the writing branch of stepHandshake
StepWrite(hs, transportMessage, messageNametag, fresh) ==
  Then(processMessagePatternTokens(hs, <<>>, fresh),
       LAMBDA t : WritePayload(t, transportMessage, toMessageNametag(messageNametag)))

ReadPayloadEnd(p) == StepEnd(p, DefaultPayloadV2, p.out)

\* the reading branch after processMessagePatternTokens gave t
ReadPayload(t, readPayloadV2) ==
  IF t.err # "" THEN TokenError(t)
  ELSE Then(ProcessPayload(t.hs, readPayloadV2.transportMessage,
                            readPayloadV2.messageNametag),
            LAMBDA p : ReadPayloadEnd(p))

\* the reading branch of stepHandshake after the nametag test
StepRead(hs, readPayloadV2, fresh) ==
  Then(processMessagePatternTokens(hs, readPayloadV2.handshakeMessage, fresh),
       LAMBDA t : ReadPayload(t, readPayloadV2))

\* stepHandshake counting a call made after the last message pattern
stepHandshakeCountingOn(hs, readPayloadV2, transportMessage, messageNametag, fresh) ==
  IF hs.msgPatternIdx > Len(hs.handshakePattern.messagePatterns) - 1
  THEN StepResult("", [hs EXCEPT !.msgPatternIdx = @ + 1], DefaultPayloadV2, Empty)
  ELSE IF ~Reading(hs, hs.handshakePattern.messagePatterns[hs.msgPatternIdx + 1].direction)
  THEN StepWrite(hs, transportMessage, messageNametag, fresh)
  ELSE IF NametagMismatch(hs, readPayloadV2.messageNametag, toMessageNametag(messageNametag))
  THEN StepResult(NametagError(hs), hs, DefaultPayloadV2, Empty)
  ELSE StepRead(hs, readPayloadV2, fresh)

\* Handshake.stepHandshake(readPayloadV2, transportMessage, messageNametag)
stepHandshake(hs, readPayloadV2, transportMessage, messageNametag, fresh) ==
  IF hs.msgPatternIdx > Len(hs.handshakePattern.messagePatterns) - 1
  THEN StepResult("", hs, DefaultPayloadV2, Empty)
  ELSE IF ~Reading(hs, hs.handshakePattern.messagePatterns[hs.msgPatternIdx + 1].direction)
  THEN StepWrite(hs, transportMessage, messageNametag, fresh)
  ELSE IF NametagMismatch(hs, readPayloadV2.messageNametag, toMessageNametag(messageNametag))
  THEN StepResult(NametagError(hs), hs, DefaultPayloadV2, Empty)
  ELSE StepRead(hs, readPayloadV2, fresh)

\* HandshakeState.genMessageNametagSecrets
genMessageNametagSecrets(hs) ==
  [nms1 |-> getHKDF(hs.ss.ck, <<"nametag-secrets">>, 1),
   nms2 |-> getHKDF(hs.ss.ck, <<"nametag-secrets">>, 2)]

\* HandshakeState.toMessageNametag of revision "spec": the first 16 bytes
\* of the first HKDF output over the chaining key and the handshake hash
hsToMessageNametag(hs) == toMessageNametag(getHKDF(hs.ss.ck, hs.ss.h, 1))

\* Handshake.genAuthcode of revision "spec": decimal digits computed from
\* the handshake hash alone, so that equal hashes give equal codes
genAuthcode(hs) == <<"authcode", hs.ss.h>>

\* new HandshakeResult()
NewHandshakeResult ==
  [csOutbound |-> NewCipherState(createEmptyKey), csInbound |-> NewCipherState(createEmptyKey),
   nametagsInbound |-> NewMessageNametagBuffer, nametagsOutbound |-> NewMessageNametagBuffer,
   rs |-> Empty, h |-> Empty]

\* Handshake.finalizeHandshake: no test of msgPatternIdx comes before split
finalizeHandshake(hs) ==
  LET cs == split(hs.ss)
      nms == genMessageNametagSecrets(hs)
  IN [csOutbound |-> IF hs.initiator THEN cs.cs1 ELSE cs.cs2,
      csInbound |-> IF hs.initiator THEN cs.cs2 ELSE cs.cs1,
      nametagsInbound |->
        initNametagsBuffer([NewMessageNametagBuffer EXCEPT
                              !.secret = IF hs.initiator THEN nms.nms1 ELSE nms.nms2]),
      nametagsOutbound |->
        initNametagsBuffer([NewMessageNametagBuffer EXCEPT
                              !.secret = IF hs.initiator THEN nms.nms2 ELSE nms.nms1]),
      rs |-> hs.rs, h |-> hs.ss.h]

\* writeMessage after pop gave popped and encryptWithAd gave c
\* WriteEnd with one cipher state for both directions
WriteEndSharedCipher(hsr, popped, c) ==
  [err |-> c.err,
   hsr |-> [hsr EXCEPT !.nametagsOutbound = popped.b, !.csOutbound = c.cs,
                       !.csInbound = c.cs],
   out |-> PayloadV2(popped.out, 0, <<>>, IF c.err = "" THEN c.out ELSE Undef)]

WriteEnd(hsr, popped, c) ==
  [err |-> c.err,
   hsr |-> [hsr EXCEPT !.nametagsOutbound = popped.b, !.csOutbound = c.cs],
   out |-> PayloadV2(popped.out, 0, <<>>, IF c.err = "" THEN c.out ELSE Undef)]

WritePopped(hsr, transportMessage, popped) ==
  WriteEnd(hsr, popped,
           encryptWithAd(hsr.csOutbound, popped.out, pkcs7pad(transportMessage)))

\* Handshake.writeMessage(hsr, transportMessage, hsr.nametagsOutbound)
writeMessage(hsr, transportMessage) ==
  WritePopped(hsr, transportMessage, pop(hsr.nametagsOutbound))

Rejected(hsr, err) == [err |-> err, hsr |-> hsr, out |-> Undef, accepted |-> FALSE]

\* readMessage after decryptWithAd gave d, with the inbound cipher state
\* and the inbound nametag buffer left as they were
ReadEndKeepState(hsr, d) ==
  IF d.err # ""
  THEN [err |-> "", hsr |-> [hsr EXCEPT !.csInbound = d.cs], out |-> Empty,
        accepted |-> FALSE]
  ELSE [err |-> "", hsr |-> hsr, out |-> pkcs7unpad(d.out), accepted |-> TRUE]

\* readMessage deleting the first inbound nametag whether or not the
\* decryption succeeded
ReadEndDeletingAlways(hsr, d) ==
  [err |-> "", out |-> IF d.err # "" THEN Empty ELSE pkcs7unpad(d.out),
   accepted |-> d.err = "",
   hsr |-> [hsr EXCEPT !.csInbound = d.cs,
                       !.nametagsInbound = delete(hsr.nametagsInbound, 1)]]

\* readMessage after decryptWithAd gave d: a failed decryption gives the
\* empty message, a successful one deletes the first inbound nametag
ReadEnd(hsr, d) ==
  IF d.err # ""
  THEN [err |-> "", hsr |-> [hsr EXCEPT !.csInbound = d.cs], out |-> Empty,
        accepted |-> FALSE]
  ELSE [err |-> "", out |-> pkcs7unpad(d.out), accepted |-> TRUE,
        hsr |-> [hsr EXCEPT !.csInbound = d.cs,
                            !.nametagsInbound = delete(hsr.nametagsInbound, 1)]]

\* readMessage after checkNametag gave c
ReadChecked(hsr, readPayload2, c) ==
  IF c.err # "" THEN Rejected(hsr, c.err)
  ELSE IF ~c.ok THEN Rejected(hsr, "nametag is not ok")
  ELSE IF readPayload2.protocolId # 0
  THEN [err |-> "", hsr |-> hsr, out |-> Empty, accepted |-> FALSE]
  ELSE ReadEnd(hsr, decryptWithAd(hsr.csInbound, readPayload2.messageNametag,
                                  readPayload2.transportMessage))

\* Handshake.readMessage(hsr, readPayload2, hsr.nametagsInbound); accepted
\* tells that the payload was decrypted and its plaintext returned
readMessage(hsr, readPayload2) ==
  ReadChecked(hsr, readPayload2, checkNametag(hsr.nametagsInbound, readPayload2.messageNametag))

(***************************************************************************)
(* Secure-transfer codec (codec.ts)                                        *)
(***************************************************************************)

\* the encoder's result once writeMessage gave w and serialize gave ser
Encoded(w, ser) ==
  [err |-> IF w.err # "" THEN w.err ELSE ser.err, hsr |-> w.hsr, out |-> ser.bytes]

EncodeWritten(w) == Encoded(w, serialize(w.out))

\* NoiseSecureTransferEncoder.toProtoObj: writeMessage, then serialize
EncodeSecure(hsr, payload) == EncodeWritten(writeMessage(hsr, payload))

\* the decoder's result once deserialize gave d: what deserialize or
\* readMessage throws is caught and no message is returned
Decoded(hsr, d) ==
  IF d.err # "" THEN Rejected(hsr, d.err) ELSE readMessage(hsr, d.payload)

\* NoiseSecureTransferDecoder.fromProtoObj: deserialize, then readMessage
DecodeSecure(hsr, payload) == Decoded(hsr, deserialize(payload))

\* what fromProtoObj returns when DecodeSecure gave r: undefined from the
\* catch block, else new NoiseSecureMessage(proto, decryptedPayload)
Returned(r) ==
  IF r.err # "" THEN [defined |-> FALSE, payload |-> Undef]
  ELSE [defined |-> TRUE, payload |-> r.out]

(***************************************************************************)
(* State                                                                   *)
(***************************************************************************)

VARIABLES
  cs,         \* a CipherState under test
  csOp,       \* the last operation on cs: its name, nonce and key before it, its error
  hs,         \* the Handshake object of each party
  sent,       \* the payloads written by stepHandshake, oldest first
  calls,      \* the number of stepHandshake calls of each party
  stepErr,    \* the error of each party's last stepHandshake call
  lastStep,   \* each party's last call of the Handshake class, and what came before it
  hsr,        \* the HandshakeResult of each party
  finalized,  \* whether the party has called finalizeHandshake
  net,        \* the secure-transfer payloads in transit, per receiver
  written,    \* the number of plaintexts each party has written
  delivered,  \* what readMessage accepted at each party: nametag and plaintext
  lastRead,   \* each party's last readMessage call: nametag, error, accepted or not
  drv,        \* the WakuPairing object of each party and the position of its driver
  scn,        \* what each party's surroundings do: its user, its timeout, its build
  dropped     \* whether a handshake message was published to no subscription

vars ==
  <<cs, csOp, hs, sent, calls, stepErr, lastStep, hsr, finalized, net, written, delivered, lastRead,
    drv, scn, dropped>>

cipherVars == <<cs, csOp>>
handshakeVars == <<hs, sent, calls, stepErr, lastStep>>
transferVars == <<hsr, finalized, net, written, delivered, lastRead>>
pairingVars == <<drv, scn, dropped>>

Party == {"alice", "bob"}
Peer(p) == IF p = "alice" THEN "bob" ELSE "alice"

(***************************************************************************)
(* CipherState operations, one call at a time                              *)
(***************************************************************************)

\* keys a CipherState is built with: the empty key and two set keys
CipherKeys == {createEmptyKey, <<"key", 1>>, <<"key", 2>>}
AssociatedData == {Empty, <<"ad", 1>>}
Plaintexts == {<<"msg", 1>>, <<"msg", 2>>}

\* ciphertexts handed to decryptWithAd: seals of a plaintext under the
\* nonce of the cipher state or nonce 0, and under every key and associated
\* data of the model
Ciphertexts(n) ==
  {chaCha20Poly1305Encrypt(<<"msg", 1>>, m, ad, k) :
     m \in {0, n}, ad \in AssociatedData, k \in CipherKeys \ {createEmptyKey}}

\* the record of a call of op on the cipher state c with the argument arg,
\* that threw err or returned out
CsOp(op, c, arg, err, out) ==
  [op |-> op, before |-> c.n, kBefore |-> c.k, keyed |-> hasKey(c), arg |-> arg,
   ad |-> Undef, err |-> err, out |-> out, streak |-> 0]

\* the longest run of calls failing on the nonce that is counted
MaxStreak == 3

InitCipher ==
  /\ cs \in {NewCipherState(k) : k \in CipherKeys}
  /\ csOp = CsOp("new", cs, Undef, "", Undef)
  /\ hs = <<>> /\ sent = <<>> /\ calls = <<>> /\ stepErr = <<>> /\ lastStep = <<>>
  /\ hsr = <<>> /\ finalized = <<>> /\ net = <<>> /\ written = <<>> /\ delivered = <<>>
  /\ lastRead = <<>>
  /\ drv = <<>> /\ scn = <<>> /\ dropped = FALSE

\* the call op with the associated data ad and the argument arg returned r
CsDone(op, ad, arg, r) ==
  /\ cs' = r.cs
  /\ csOp' = [CsOp(op, cs, arg, r.err, r.out) EXCEPT
                !.ad = ad,
                !.streak = IF r.err # "nonce" THEN 0
                           ELSE IF csOp.streak < MaxStreak THEN csOp.streak + 1
                           ELSE MaxStreak]

CsEncryptWithAd ==
  \E ad \in AssociatedData, m \in Plaintexts :
    CsDone("encryptWithAd", ad, m, encryptWithAd(cs, ad, m))

CsDecryptWithAd ==
  \E ad \in AssociatedData, c \in Ciphertexts(cs.n) :
    CsDone("decryptWithAd", ad, c, decryptWithAd(cs, ad, c))

CsSetNonce ==
  \E n \in 0..(MAX_NONCE + 1) :
    /\ cs' = setNonce(cs, n)
    /\ csOp' = CsOp("setNonce", cs, Undef, "", Undef)

CsSetCipherStateKey ==
  \E k \in CipherKeys :
    /\ cs' = setCipherStateKey(cs, k)
    /\ csOp' = CsOp("setCipherStateKey", cs, Undef, "", Undef)

\* getKey, getNonce, hasKey, equals, clone: they read the state
CsRead ==
  \E op \in {"getKey", "getNonce", "hasKey", "equals", "clone"} :
    /\ cs' = cs
    /\ csOp' = CsOp(op, cs, Undef, "", Undef)

NextCipher ==
  /\ \/ CsEncryptWithAd
     \/ CsDecryptWithAd
     \/ CsSetNonce
     \/ CsSetCipherStateKey
     \/ CsRead
  /\ UNCHANGED <<handshakeVars, transferVars, pairingVars>>

\* a CipherState driven through encryptWithAd and decryptWithAd alone
NextCipherRun ==
  /\ \/ CsEncryptWithAd
     \/ CsDecryptWithAd
  /\ UNCHANGED <<handshakeVars, transferVars, pairingVars>>

SpecCipherRun == InitCipher /\ [][NextCipherRun]_vars

SpecCipher == InitCipher /\ [][NextCipher]_vars

(***************************************************************************)
(* Two parties run a handshake with the Handshake class                    *)
(***************************************************************************)

\* the most stepHandshake calls a party makes
MaxCalls == 4

Prologues == {Empty, <<"prologue", 1>>}
HandshakeNametags == {Empty, <<"nt", 1>>}
HandshakeTransportMessages == {Empty, Rnd(1)}

\* the key pairs each party constructs its Handshake with, and the private
\* key its generateX25519KeyPair draws
EphemeralKeyOf(p) == IF p = "alice" THEN KeyPair(1) ELSE KeyPair(2)
StaticKeyOf(p) == IF p = "alice" THEN KeyPair(3) ELSE KeyPair(4)
FreshOf(p) == IF p = "alice" THEN 5 ELSE 6
PskOf(id) == IF id = 13 THEN <<"psk", 1>> ELSE Empty

\* the pre-message public keys party p passes to its constructor: the key
\* each pre-message token names, its own keys being the very arrays of its
\* key pairs
PreMessagePKsOf(id, p) ==
  LET toks == Flatten(NoiseHandshakePatterns(id).preMessagePatterns)
      owner(t) == IF t.direction = "->" THEN "alice" ELSE "bob"
      keyOf(t) == IF t.token = "e" THEN EphemeralKeyOf(owner(t)).publicKey
                  ELSE StaticKeyOf(owner(t)).publicKey
  IN [i \in 1..Len(toks) |->
        fromPublicKey(keyOf(toks[i]), IF owner(toks[i]) = p THEN toks[i].token ELSE "other")]

Construct(id, prologue, p) ==
  NewHandshake(NoiseHandshakePatterns(id), EphemeralKeyOf(p), StaticKeyOf(p), prologue,
               PskOf(id), PreMessagePKsOf(id, p), p = "alice")

NumPatterns(h) == Len(h.handshakePattern.messagePatterns)

\* the party reads (or writes) the message pattern it is at
AtRead(p) ==
  /\ hs[p].msgPatternIdx < NumPatterns(hs[p])
  /\ Reading(hs[p], hs[p].handshakePattern.messagePatterns[hs[p].msgPatternIdx + 1].direction)

AtWrite(p) ==
  /\ hs[p].msgPatternIdx < NumPatterns(hs[p])
  /\ ~Reading(hs[p], hs[p].handshakePattern.messagePatterns[hs[p].msgPatternIdx + 1].direction)

\* the record of a call of kind on the handshake state h: the pattern index
\* and the symmetric state before it, whether the payload read carried the
\* expected nametag and was as written, the key pairs and remote keys
\* before it, whether the result is the empty one, whether the call before
\* was of the same kind, the error thrown and where, and
\* what came before: whether an earlier call threw from the tokens, whether
\* an earlier call read a payload that was tampered with, whether the call
\* before was a read that expected another nametag, and the number
\* of calls that have handled a message pattern, this one included
StepRecord(kind, h, tagged, intact, r, before) ==
  [kind |-> kind, idx |-> h.msgPatternIdx, ss |-> h.ss, tagged |-> tagged, intact |-> intact,
   keys |-> <<h.e, h.s, h.re, h.rs>>,
   empty |-> r.payload2 = DefaultPayloadV2 /\ r.transportMessage = Empty,
   again |-> before.kind = kind,
   err |-> r.err, at |-> r.at,
   poisoned |-> before.poisoned \/ before.at = "tokens",
   tampered |-> before.tampered \/ ~before.intact,
   retry |-> before.kind = "read" /\ ~before.tagged,
   handled |-> IF kind \in {"write", "read"} /\ r.err = ""
               THEN before.handled + 1 ELSE before.handled]

\* no call yet
NoStep(h) ==
  [kind |-> "none", idx |-> h.msgPatternIdx, ss |-> h.ss, tagged |-> TRUE, intact |-> TRUE,
   keys |-> <<h.e, h.s, h.re, h.rs>>, empty |-> TRUE, again |-> FALSE,
   err |-> "", at |-> "", poisoned |-> FALSE, tampered |-> FALSE,
   retry |-> FALSE, handled |-> 0]

\* both parties have constructed their Handshake, of revision rev, with a
\* prologue of prologues
InitHandshakeOf(rev, prologues) ==
  /\ \E id \in PatternIds, prologue \in prologues :
       /\ \A p \in Party : Construct(id, prologue, p).err = ""
       /\ hs = [p \in Party |-> [Construct(id, prologue, p).hs EXCEPT !.revision = rev]]
  /\ sent = <<>>
  /\ calls = [p \in Party |-> 0]
  /\ stepErr = [p \in Party |-> ""]
  /\ lastStep = [p \in Party |-> NoStep(hs[p])]
  /\ hsr = [p \in Party |-> NewHandshakeResult]
  /\ finalized = [p \in Party |-> FALSE]
  /\ cs = <<>> /\ csOp = <<>> /\ net = <<>> /\ written = <<>> /\ delivered = <<>>
  /\ lastRead = <<>>
  /\ drv = <<>> /\ scn = <<>> /\ dropped = FALSE

InitHandshake == InitHandshakeOf("src", Prologues)

\* stepHandshake returned r to p: a payload written goes to the peer with
\* the nametag it was written with
Stepped(p, r, nt, kind, tagged, intact) ==
  /\ hs' = [hs EXCEPT ![p] = r.hs]
  /\ stepErr' = [stepErr EXCEPT ![p] = r.err]
  /\ lastStep' = [lastStep EXCEPT
                    ![p] = StepRecord(kind, hs[p], tagged, intact, r, lastStep[p])]
  /\ sent' = IF r.err = "" /\ kind = "write"
             THEN Append(sent, [payload |-> r.payload2, nametag |-> nt, by |-> p,
                                idx |-> hs[p].msgPatternIdx])
             ELSE sent

\* p writes the message pattern it is at, with a transport message of tms
\* and a nametag of nts, and hands the payload to its peer
StepHandshakeWriteOf(p, tms, nts) ==
  /\ calls[p] < MaxCalls
  /\ AtWrite(p)
  /\ \E tm \in tms, nt \in nts :
       \E r \in {stepHandshake(hs[p], DefaultPayloadV2, tm, nt, FreshOf(p))} :
         Stepped(p, r, nt, "write", TRUE, TRUE)
  /\ calls' = [calls EXCEPT ![p] = @ + 1]
  /\ UNCHANGED <<cipherVars, transferVars, pairingVars>>

StepHandshakeWrite(p) ==
  StepHandshakeWriteOf(p, HandshakeTransportMessages, HandshakeNametags)

\* p reads the payload its peer wrote for the message pattern p is at,
\* expecting the nametag the payload was written with
StepHandshakeRead(p) ==
  /\ calls[p] < MaxCalls
  /\ AtRead(p)
  /\ \E i \in 1..Len(sent) :
       /\ sent[i].by = Peer(p)
       /\ sent[i].idx = hs[p].msgPatternIdx
       /\ \E r \in {stepHandshake(hs[p], sent[i].payload, Empty, sent[i].nametag,
                                   FreshOf(p))} :
            Stepped(p, r, sent[i].nametag, "read", TRUE, TRUE)
  /\ calls' = [calls EXCEPT ![p] = @ + 1]
  /\ UNCHANGED <<cipherVars, transferVars, pairingVars>>

\* p reads the payload its peer wrote for the message pattern p is at, but
\* expects another nametag than the one the payload was written with
StepHandshakeReadMistagged(p) ==
  /\ AtRead(p)
  /\ \E i \in 1..Len(sent), nt \in HandshakeNametags :
       /\ sent[i].by = Peer(p)
       /\ sent[i].idx = hs[p].msgPatternIdx
       /\ nt # sent[i].nametag
       /\ \E r \in {stepHandshake(hs[p], sent[i].payload, Empty, nt, FreshOf(p))} :
            Stepped(p, r, nt, "read", FALSE, TRUE)
  /\ UNCHANGED <<calls, cipherVars, transferVars, pairingVars>>

\* what a payload may have become on its way: its public keys gone, the
\* first of them with a flag that is neither 0 nor 1, cut short, or
\* replaced by bytes flagged as encrypted
Tamperings == {"nokey", "flag", "short", "forged"}

Tamper(payload, how) ==
  LET keys == payload.handshakeMessage
      first(k) == [payload EXCEPT !.handshakeMessage = <<k>> \o Tail(keys)]
  IN CASE how = "nokey" -> [payload EXCEPT !.handshakeMessage = <<>>]
       [] how = "flag" -> first([keys[1] EXCEPT !.flag = 2])
       [] how = "short" -> first([keys[1] EXCEPT !.flag = 0, !.pk = <<"le", 0>>])
       [] how = "forged" -> first([keys[1] EXCEPT !.flag = 1, !.pk = Rnd(8)])

\* p reads the payload its peer wrote for the message pattern p is at after
\* it was tampered with, expecting the nametag it was written with; this
\* happens to a party once at most
StepHandshakeReadTampered(p) ==
  /\ calls[p] < MaxCalls
  /\ ~lastStep[p].tampered /\ lastStep[p].intact
  /\ AtRead(p)
  /\ \E i \in 1..Len(sent), how \in Tamperings :
       /\ sent[i].by = Peer(p)
       /\ sent[i].idx = hs[p].msgPatternIdx
       /\ sent[i].payload.handshakeMessage # <<>>
       /\ \E r \in {stepHandshake(hs[p], Tamper(sent[i].payload, how), Empty,
                                   sent[i].nametag, FreshOf(p))} :
            Stepped(p, r, sent[i].nametag, "read", TRUE, FALSE)
  /\ calls' = [calls EXCEPT ![p] = @ + 1]
  /\ UNCHANGED <<cipherVars, transferVars, pairingVars>>

\* p calls stepHandshake once more after its last message pattern, with an
\* empty payload or the last one written, a transport message and a nametag
StepHandshakeAfterLast(p) ==
  /\ hs[p].msgPatternIdx >= NumPatterns(hs[p])
  /\ \E pl \in {DefaultPayloadV2, sent[Len(sent)].payload}, nt \in HandshakeNametags :
       \E r \in {stepHandshake(hs[p], pl, Rnd(1), nt, FreshOf(p))} :
         Stepped(p, r, nt, "after", TRUE, TRUE)
  /\ UNCHANGED <<calls, cipherVars, transferVars, pairingVars>>

\* p calls finalizeHandshake, which the class allows at any time
FinalizeHandshake(p) ==
  /\ ~finalized[p]
  /\ hsr' = [hsr EXCEPT ![p] = finalizeHandshake(hs[p])]
  /\ finalized' = [finalized EXCEPT ![p] = TRUE]
  /\ lastStep' = [lastStep EXCEPT
                    ![p] = StepRecord("finalize", hs[p], TRUE, TRUE,
                                      StepResult("", hs[p], DefaultPayloadV2, Empty),
                                      lastStep[p])]
  /\ UNCHANGED <<cipherVars, hs, sent, calls, stepErr, net, written, delivered, lastRead,
                 pairingVars>>

\* both parties have constructed their Handshake with the custom pattern
InitCustom ==
  /\ \E prologue \in Prologues :
       hs = [p \in Party |->
               NewHandshake(CustomPattern, EphemeralKeyOf(p), StaticKeyOf(p), prologue,
                            Empty, <<>>, p = "alice").hs]
  /\ sent = <<>>
  /\ calls = [p \in Party |-> 0]
  /\ stepErr = [p \in Party |-> ""]
  /\ lastStep = [p \in Party |-> NoStep(hs[p])]
  /\ hsr = [p \in Party |-> NewHandshakeResult]
  /\ finalized = [p \in Party |-> FALSE]
  /\ cs = <<>> /\ csOp = <<>> /\ net = <<>> /\ written = <<>> /\ delivered = <<>>
  /\ lastRead = <<>>
  /\ drv = <<>> /\ scn = <<>> /\ dropped = FALSE

Next ==
  \E p \in Party :
    \/ StepHandshakeWrite(p)
    \/ StepHandshakeRead(p)
    \/ StepHandshakeReadMistagged(p)
    \/ FinalizeHandshake(p)

Spec == InitHandshake /\ [][Next]_vars

SpecCustom == InitCustom /\ [][Next]_vars

\* A caller that builds one preMessagePKs array and hands it to the
\* constructors of both parties, as the test of the pairing does: scn holds
\* the pattern, the prologue and the number of keys that have been shifted
\* off the array
InitShared ==
  /\ \E id \in PatternIds, prologue \in Prologues :
       /\ scn = [id |-> id, prologue |-> prologue, shifted |-> 0]
       /\ hs = [p \in Party |-> NewHandshakeState(NoiseHandshakePatterns(id), PskOf(id))]
  /\ sent = <<>>
  /\ calls = [p \in Party |-> 0]
  /\ stepErr = [p \in Party |-> ""]
  /\ lastStep = [p \in Party |-> [NoStep(hs[p]) EXCEPT !.kind = "unbuilt"]]
  /\ hsr = [p \in Party |-> NewHandshakeResult]
  /\ finalized = [p \in Party |-> FALSE]
  /\ cs = <<>> /\ csOp = <<>> /\ net = <<>> /\ written = <<>> /\ delivered = <<>>
  /\ lastRead = <<>>
  /\ drv = <<>> /\ dropped = FALSE

\* the caller's array as p's constructor finds it
SharedPreMessagePKs(p) ==
  SubSeq(PreMessagePKsOf(scn.id, p), scn.shifted + 1, Len(PreMessagePKsOf(scn.id, p)))

\* new Handshake(...) of p gave r: the keys it shifted are gone from the
\* caller's array
Constructed(p, r) ==
  /\ hs' = [hs EXCEPT ![p] = r.hs]
  /\ stepErr' = [stepErr EXCEPT ![p] = r.err]
  /\ lastStep' = [lastStep EXCEPT
                    ![p] = [NoStep(r.hs) EXCEPT
                              !.kind = IF r.err = "" THEN "new" ELSE "threw"]]
  /\ scn' = [scn EXCEPT !.shifted = Len(PreMessagePKsOf(scn.id, p)) - Len(r.pks)]
  /\ UNCHANGED <<cipherVars, sent, calls, transferVars, drv, dropped>>

\* the caller constructs the Handshake of p with its array
ConstructShared(p) ==
  /\ lastStep[p].kind = "unbuilt"
  /\ \E r \in {NewHandshake(NoiseHandshakePatterns(scn.id), EphemeralKeyOf(p),
                             StaticKeyOf(p), scn.prologue, PskOf(scn.id),
                             SharedPreMessagePKs(p), p = "alice")} :
       Constructed(p, r)

\* p has a Handshake object
Built(p) == lastStep[p].kind \notin {"unbuilt", "threw"}

NextShared ==
  \E p \in Party :
    \/ ConstructShared(p)
    \/ Built(p) /\ StepHandshakeWrite(p)
    \/ Built(p) /\ StepHandshakeRead(p)
    \/ Built(p) /\ StepHandshakeReadMistagged(p)

SpecShared == InitShared /\ [][NextShared]_vars

\* the Handshake class with the nametag test of the revision that the
\* pairing driver imports: messages are read, so that a handshake runs to
\* its end, payloads may be tampered with, and stepHandshake may be called
\* after the last message pattern
InitEngine == InitHandshakeOf("spec", {Empty})

\* p writes the message pattern it is at with a transport message and a
\* nametag
EngineWrite(p) == StepHandshakeWriteOf(p, {Rnd(1)}, {<<"nt", 1>>})

NextEngine ==
  \E p \in Party :
    \/ EngineWrite(p)
    \/ StepHandshakeRead(p)
    \/ StepHandshakeReadMistagged(p)
    \/ StepHandshakeReadTampered(p)
    \/ StepHandshakeAfterLast(p)
    \/ FinalizeHandshake(p)

SpecEngine == InitEngine /\ [][NextEngine]_vars

(***************************************************************************)
(* Secure transfer after finalizeHandshake                                 *)
(***************************************************************************)

\* the most messages a party writes when the transport keeps their order
MaxTransfer == 52

\* the most payloads in transit to one party when the transport keeps
\* their order
MaxInFlight == 1

\* the most messages a party writes when the transport may lose, repeat
\* and reorder them
MaxLossy == 3

\* the patterns whose handshake results carry the transfer
TransferPatterns == {12, 14}

\* the i-th plaintext party p writes
Msg(p, i) == <<"msg", p, i>>

\* the last payload a party's decoder was handed: its nametag, the error
\* raised, whether a message came out of it, what checkNametag returned for
\* it and the index its findIndex had found, the messages the party had
\* accepted before, which of its peer's messages it was and which was the
\* first in the party's inbound buffer, how many nametags the party had
\* deleted just before, how many it has deleted since, what the decoder
\* returned, and how the payload had been altered
NoRead ==
  [nametag |-> Undef, err |-> "", accepted |-> FALSE, check |-> Undef,
   index |-> -1, had |-> 0, n |-> 0, head |-> 1, resynced |-> 0, deleted |-> 0,
   msg |-> [defined |-> FALSE, payload |-> Undef], altered |-> ""]

\* which of the messages p's peer has written carries the nametag
NumberOf(p, nametag) ==
  LET secret == hsr[Peer(p)].nametagsOutbound.secret
      is(i) == DeriveNametag(secret, i - 1) = nametag
  IN IF \E i \in 1..written[Peer(p)] : is(i)
     THEN CHOOSE i \in 1..written[Peer(p)] : is(i)
     ELSE 0

\* both parties have constructed their Handshake and called
\* finalizeHandshake in the same handshake state
InitFinalized(emptyNet) ==
  /\ \E id \in TransferPatterns :
       /\ \A p \in Party : Construct(id, Empty, p).err = ""
       /\ hs = [p \in Party |-> Construct(id, Empty, p).hs]
  /\ hsr = [p \in Party |-> finalizeHandshake(hs[p])]
  /\ finalized = [p \in Party |-> TRUE]
  /\ sent = <<>>
  /\ calls = [p \in Party |-> 0]
  /\ stepErr = [p \in Party |-> ""]
  /\ lastStep = [p \in Party |-> NoStep(hs[p])]
  /\ net = [p \in Party |-> emptyNet]
  /\ written = [p \in Party |-> 0]
  /\ delivered = [p \in Party |-> <<>>]
  /\ lastRead = [p \in Party |-> NoRead]
  /\ cs = <<>> /\ csOp = <<>>
  /\ drv = <<>> /\ scn = <<>> /\ dropped = FALSE

\* the encoder returned r to p: the payload of a successful call is in
\* transit to the peer, toPeer being the peer's transit with it
Wrote(p, r, toPeer) ==
  /\ hsr' = [hsr EXCEPT ![p] = r.hsr]
  /\ written' = [written EXCEPT ![p] = @ + 1]
  /\ net' = IF r.err = "" THEN [net EXCEPT ![Peer(p)] = toPeer] ELSE net
  /\ UNCHANGED <<cipherVars, handshakeVars, finalized, delivered, lastRead, pairingVars>>

\* the decoder returned r to p for the serialized payload pl; rest is p's
\* transit afterwards
DidReadAltered(p, pl, r, rest, how) ==
  /\ hsr' = [hsr EXCEPT ![p] = r.hsr]
  /\ lastRead' = [lastRead EXCEPT
                    ![p] = [nametag |-> pl[2], err |-> r.err,
                            accepted |-> r.accepted,
                            check |-> checkNametag(hsr[p].nametagsInbound, pl[2]),
                            index |-> FindIndex(hsr[p].nametagsInbound.buffer, pl[2]),
                            had |-> Len(delivered[p]),
                            n |-> NumberOf(p, pl[2]),
                            head |-> hsr[p].nametagsInbound.counter
                                       - MessageNametagBufferSize + 1,
                            resynced |-> lastRead[p].deleted,
                            deleted |-> 0,
                            msg |-> Returned(r),
                            altered |-> how]]
  /\ delivered' = IF r.accepted
                  THEN [delivered EXCEPT
                          ![p] = Append(@, [nametag |-> pl[2], out |-> r.out])]
                  ELSE delivered
  /\ net' = [net EXCEPT ![p] = rest]
  /\ UNCHANGED <<cipherVars, handshakeVars, finalized, written, pairingVars>>

DidRead(p, pl, r, rest) == DidReadAltered(p, pl, r, rest, "")

WriteOut(p) == EncodeSecure(hsr[p], Msg(p, written[p] + 1))

\* p writes its next message; the transport queues it for the peer
TransferWrite(p) ==
  /\ written[p] < MaxTransfer
  /\ Len(net[Peer(p)]) < MaxInFlight
  /\ Wrote(p, WriteOut(p), Append(net[Peer(p)], WriteOut(p).out))

\* p reads the oldest payload in transit to it
TransferRead(p) ==
  /\ net[p] # <<>>
  /\ DidRead(p, Head(net[p]), DecodeSecure(hsr[p], Head(net[p])), Tail(net[p]))

NextInOrder == \E p \in Party : TransferWrite(p) \/ TransferRead(p)

SpecTransferInOrder == InitFinalized(<<>>) /\ [][NextInOrder]_vars

\* the transport loses the oldest payload in transit to p
TransferDrop(p) ==
  /\ net[p] # <<>>
  /\ net' = [net EXCEPT ![p] = Tail(@)]
  /\ UNCHANGED <<cipherVars, handshakeVars, hsr, finalized, written, delivered,
                 lastRead, pairingVars>>

\* one party writes, the other reads what the transport has not lost
OneWayWrite(p) == written[Peer(p)] = 0 /\ TransferWrite(p)

NextDropping ==
  \E p \in Party : OneWayWrite(p) \/ TransferRead(p) \/ TransferDrop(p)

SpecTransferDropping == InitFinalized(<<>>) /\ [][NextDropping]_vars

\* p writes its next message; the transport holds every payload written
LossyWrite(p) ==
  /\ written[p] < MaxLossy
  /\ Wrote(p, WriteOut(p), net[Peer(p)] \cup {WriteOut(p).out})

\* p reads any payload ever written to it: payloads arrive in any order,
\* any number of times or never
LossyRead(p) ==
  \E pl \in net[p] : DidRead(p, pl, DecodeSecure(hsr[p], pl), net[p])

NextLossy == \E p \in Party : LossyWrite(p) \/ LossyRead(p)

SpecTransferLossy == InitFinalized({}) /\ [][NextLossy]_vars

\* p, whose last payload carried a nametag that is in its inbound buffer but
\* not first, deletes the nametags before it
Resync(p) ==
  /\ lastRead[p].index > 0
  /\ lastRead[p].deleted = 0
  /\ hsr' = [hsr EXCEPT ![p].nametagsInbound = delete(@, lastRead[p].index)]
  /\ lastRead' = [lastRead EXCEPT ![p].deleted = lastRead[p].index]
  /\ UNCHANGED <<cipherVars, handshakeVars, finalized, net, written, delivered,
                 pairingVars>>

NextResync == \E p \in Party : LossyWrite(p) \/ LossyRead(p) \/ Resync(p)

SpecTransferResync == InitFinalized({}) /\ [][NextResync]_vars

\* what a payload may have become on its way: its transport message
\* replaced by other bytes, its protocol id that of a handshake or of no
\* protocol, its nametag another, or a byte short
Alterations == {"sealed", "handshake", "protocol", "nametag", "cut"}

Alter(pl, how) ==
  CASE how = "sealed" -> [pl EXCEPT ![5] = Rnd(9)]
    [] how = "handshake" -> [pl EXCEPT ![3] = 14]
    [] how = "protocol" -> [pl EXCEPT ![3] = 255]
    [] how = "nametag" -> [pl EXCEPT ![2] = <<"nt", 2>>]
    [] how = "cut" -> [pl EXCEPT ![2] = <<"le", 0>>]

\* p's decoder is handed a payload written to it and altered on its way
HostileRead(p) ==
  \E pl \in net[p], how \in Alterations :
    \E r \in {DecodeSecure(hsr[p], Alter(pl, how))} :
      DidReadAltered(p, Alter(pl, how), r, net[p], how)

\* one party writes, the other is handed what the transport makes of it
OneWayLossyWrite(p) == written[Peer(p)] = 0 /\ LossyWrite(p)

NextHostile ==
  \E p \in Party :
    OneWayLossyWrite(p) \/ LossyRead(p) \/ Resync(p) \/ HostileRead(p)

SpecTransferHostile == InitFinalized({}) /\ [][NextHostile]_vars

\* the same without the reader deleting nametags on its own
NextRejecting ==
  \E p \in Party : OneWayLossyWrite(p) \/ LossyRead(p) \/ HostileRead(p)

SpecTransferRejecting == InitFinalized({}) /\ [][NextRejecting]_vars

\* one party writes on until its nonce is exhausted and twice more; the
\* transport queues each payload for the peer
ExhaustingWrite(p) ==
  /\ written[Peer(p)] = 0
  /\ written[p] < MAX_NONCE + 2
  /\ Len(net[Peer(p)]) < MaxInFlight
  /\ \E w \in {WriteOut(p)} : Wrote(p, w, Append(net[Peer(p)], w.out))

\* p's decoder is handed the oldest payload in transit to it with its
\* transport message or its nametag replaced; the payload stays in transit
AlteredRead(p) ==
  /\ net[p] # <<>>
  /\ \E how \in {"sealed", "nametag"} :
       \E r \in {DecodeSecure(hsr[p], Alter(Head(net[p]), how))} :
         DidReadAltered(p, Alter(Head(net[p]), how), r, net[p], how)

NextExhausting ==
  \E p \in Party : ExhaustingWrite(p) \/ TransferRead(p) \/ AlteredRead(p)

SpecTransferExhausting == InitFinalized(<<>>) /\ [][NextExhausting]_vars

(***************************************************************************)
(* The two branches of stepHandshake past its nametag test: the tokens    *)
(* and the payload of a message pattern, written by one party and read by *)
(* the other                                                              *)
(***************************************************************************)

\* transport messages: none, one of 32 bytes, and one that is padded
\* already
PaddingTransportMessages == {Empty, Rnd(1), pkcs7pad(Rnd(1))}

NoBranch == [kind |-> "none", passed |-> Empty, returned |-> Empty, err |-> ""]

InitBranches ==
  /\ \E id \in PatternIds :
       /\ \A p \in Party : Construct(id, Empty, p).err = ""
       /\ hs = [p \in Party |-> Construct(id, Empty, p).hs]
  /\ sent = <<>>
  /\ calls = [p \in Party |-> 0]
  /\ stepErr = [p \in Party |-> ""]
  /\ lastStep = [p \in Party |-> NoBranch]
  /\ hsr = <<>> /\ finalized = <<>> /\ net = <<>> /\ written = <<>> /\ delivered = <<>>
  /\ lastRead = <<>>
  /\ cs = <<>> /\ csOp = <<>>
  /\ drv = <<>> /\ scn = <<>> /\ dropped = FALSE

\* p has run a branch of kind on the transport message passed, with result r
BranchDone(p, kind, passed, r) ==
  /\ hs' = [hs EXCEPT ![p] = r.hs]
  /\ stepErr' = [stepErr EXCEPT ![p] = r.err]
  /\ calls' = [calls EXCEPT ![p] = @ + 1]
  /\ lastStep' = [lastStep EXCEPT
                    ![p] = [kind |-> kind, passed |-> passed,
                            returned |-> r.transportMessage, err |-> r.err]]
  /\ UNCHANGED <<cipherVars, transferVars, pairingVars>>

\* the writing branch: processMessagePatternTokens and
\* processMessagePatternPayload on a transport message
WriteBranch(p) ==
  /\ stepErr[p] = ""
  /\ AtWrite(p)
  /\ \E tm \in PaddingTransportMessages :
       \E r \in {StepWrite(hs[p], tm, Empty, FreshOf(p))} :
         /\ BranchDone(p, "write", tm, r)
         /\ sent' = IF r.err = ""
                    THEN Append(sent, [payload |-> r.payload2, passed |-> tm, by |-> p,
                                       idx |-> hs[p].msgPatternIdx])
                    ELSE sent

\* the reading branch, on the payload the peer wrote for the message
\* pattern p is at
ReadBranch(p) ==
  /\ stepErr[p] = ""
  /\ AtRead(p)
  /\ \E i \in 1..Len(sent) :
       /\ sent[i].by = Peer(p)
       /\ sent[i].idx = hs[p].msgPatternIdx
       /\ \E r \in {StepRead(hs[p], sent[i].payload, FreshOf(p))} :
            BranchDone(p, "read", sent[i].passed, r)
  /\ UNCHANGED sent

NextBranches == \E p \in Party : WriteBranch(p) \/ ReadBranch(p)

SpecBranches == InitBranches /\ [][NextBranches]_vars

(***************************************************************************)
(* PayloadV2.serialize and PayloadV2.deserialize on their own             *)
(***************************************************************************)

PlainKey == NoisePublicKey(0, Pub(1), "other")
SealedKey == NoisePublicKey(1, chaCha20Poly1305Encrypt(Pub(2), 0, Empty, Rnd(1)), "other")

\* n times the key k
Repeat(k, n) == [i \in 1..n |-> k]

\* handshake messages of 0, 33, 82, 147, 231 and 245 serialized bytes
PayloadKeys ==
  {<<>>, <<PlainKey>>, <<PlainKey, SealedKey>>, Repeat(SealedKey, 3),
   Repeat(PlainKey, 7), Repeat(SealedKey, 5)}

\* transport messages: none, short ones, all zeros or all 0xff, a plain one
\* of unknown bytes and a padded and sealed one
PayloadTransportMessages ==
  {Empty, Bytes(16, 255), Bytes(17, 255), Bytes(17, 0), Bytes(99, 255),
   Bytes(264, 0), Bytes(264, 255), Bytes(300, 255), Rnd(1),
   chaCha20Poly1305Encrypt(pkcs7pad(Rnd(1)), 0, Empty, Rnd(2))}

\* payloads with a nametag of 16 bytes, a protocol id of the table and keys
\* that serialize to 255 bytes at most
PayloadInputs ==
  {PayloadV2(nt, id, keys, tm) :
     nt \in {<<"nt", 1>>, <<"zero16">>}, id \in KnownProtocolIds,
     keys \in PayloadKeys, tm \in PayloadTransportMessages}

\* what is added to the two lengths a serialized payload declares
ForgedKeyLengths == {0, 33}
ForgedMessageLengths == {-1, 0, 1, 1000}

\* the payload p has been built and nothing has been called
NoPayloadCall(p) ==
  [op |-> "none", p |-> p, wire |-> serialize(p).bytes,
   out |-> [err |-> "", payload |-> p]]

InitPayload ==
  /\ lastStep \in {NoPayloadCall(p) : p \in PayloadInputs}
  /\ hs = <<>> /\ sent = <<>> /\ calls = <<>> /\ stepErr = <<>>
  /\ hsr = <<>> /\ finalized = <<>> /\ net = <<>> /\ written = <<>> /\ delivered = <<>>
  /\ lastRead = <<>>
  /\ cs = <<>> /\ csOp = <<>>
  /\ drv = <<>> /\ scn = <<>> /\ dropped = FALSE

\* deserialize is called with the bytes wire, made from payload p
PayloadCalled(op, p, wire) ==
  /\ lastStep.op = "none"
  /\ lastStep.p = p
  /\ lastStep' = [op |-> op, p |-> p, wire |-> wire, out |-> deserialize(wire)]
  /\ UNCHANGED <<cipherVars, hs, sent, calls, stepErr, transferVars, pairingVars>>

\* PayloadV2.deserialize(p.serialize())
RoundTrip ==
  \E p \in {lastStep.p} :
    \E ser \in {serialize(p)} :
      ser.err = "" /\ PayloadCalled("roundtrip", p, ser.bytes)

\* PayloadV2.deserialize of a serialized payload whose two length fields
\* have been changed
DeserializeForged ==
  \E p \in {lastStep.p}, dk \in ForgedKeyLengths, dm \in ForgedMessageLengths :
    \E ser \in {serialize(p)} :
      /\ ser.err = ""
      /\ dk # 0 \/ dm # 0
      /\ ser.bytes[6] + dk <= 255
      /\ ser.bytes[7] + dm >= 0
      /\ PayloadCalled("forged", p, [ser.bytes EXCEPT ![6] = @ + dk, ![7] = @ + dm])

NextPayload == RoundTrip \/ DeserializeForged

SpecPayload == InitPayload /\ [][NextPayload]_vars

(***************************************************************************)
(* The nametag buffers of a HandshakeResult that was never finalized      *)
(***************************************************************************)

\* the most calls a party makes on its buffers
MaxBufferCalls == 3

Buffers == {"nametagsInbound", "nametagsOutbound"}
BufferDeletes == {0, 1, 2, MessageNametagBufferSize, MessageNametagBufferSize + 1}
BufferNametags ==
  {<<"zero16">>, Empty, <<"nt", 1>>, DeriveNametag(Rnd(1), 0), DeriveNametag(Rnd(1), 1)}

\* no call yet
NoBufferCall(b) ==
  [op |-> "new", which |-> "", arg |-> Undef, out |-> Undef, ok |-> FALSE,
   err |-> "", before |-> b]

\* each party holds a new HandshakeResult(): two buffers of 50 all-zero
\* nametags, no secret
InitBuffers ==
  /\ hsr = [p \in Party |-> NewHandshakeResult]
  /\ lastRead = [p \in Party |-> NoBufferCall(NewMessageNametagBuffer)]
  /\ calls = [p \in Party |-> 0]
  /\ finalized = [p \in Party |-> FALSE]
  /\ hs = <<>> /\ sent = <<>> /\ stepErr = <<>> /\ lastStep = <<>>
  /\ net = <<>> /\ written = <<>> /\ delivered = <<>>
  /\ cs = <<>> /\ csOp = <<>>
  /\ drv = <<>> /\ scn = <<>> /\ dropped = FALSE

\* p's call op(arg) on its buffer which returned out (ok for checkNametag)
\* and left the buffer as b
BufferCalled(p, which, op, arg, out, ok, err, b) ==
  /\ calls[p] < MaxBufferCalls
  /\ calls' = [calls EXCEPT ![p] = @ + 1]
  /\ hsr' = [hsr EXCEPT ![p][which] = b]
  /\ lastRead' = [lastRead EXCEPT
                    ![p] = [op |-> op, which |-> which, arg |-> arg, out |-> out,
                            ok |-> ok, err |-> err, before |-> hsr[p][which]]]
  /\ UNCHANGED <<cipherVars, hs, sent, stepErr, lastStep, finalized, net, written,
                 delivered, pairingVars>>

BufferPop(p) ==
  \E which \in Buffers :
    \E r \in {pop(hsr[p][which])} :
      BufferCalled(p, which, "pop", Undef, r.out, FALSE, "", r.b)

BufferDelete(p) ==
  \E which \in Buffers, n \in BufferDeletes :
    BufferCalled(p, which, "delete", n, Undef, FALSE, "", delete(hsr[p][which], n))

BufferCheckNametag(p) ==
  \E which \in Buffers, nt \in BufferNametags :
    \E r \in {checkNametag(hsr[p][which], nt)} :
      BufferCalled(p, which, "checkNametag", nt, Undef, r.ok, r.err, hsr[p][which])

NextBuffers ==
  \E p \in Party : BufferPop(p) \/ BufferDelete(p) \/ BufferCheckNametag(p)

SpecBuffers == InitBuffers /\ [][NextBuffers]_vars

\* a buffer whose secret has been set and that initNametagsBuffer has filled
SecretBuffer(secret) ==
  initNametagsBuffer([NewMessageNametagBuffer EXCEPT !.secret = secret])

\* each party holds a HandshakeResult whose two buffers have a secret and
\* have been initialized, as finalizeHandshake leaves them
InitNametags ==
  /\ hsr = [p \in Party |->
             [NewHandshakeResult EXCEPT
                !.nametagsInbound = SecretBuffer(IF p = "alice" THEN Rnd(1) ELSE Rnd(2)),
                !.nametagsOutbound = SecretBuffer(IF p = "alice" THEN Rnd(2) ELSE Rnd(1))]]
  /\ lastRead = [p \in Party |-> NoBufferCall(hsr[p].nametagsInbound)]
  /\ calls = [p \in Party |-> 0]
  /\ finalized = [p \in Party |-> TRUE]
  /\ hs = <<>> /\ sent = <<>> /\ stepErr = <<>> /\ lastStep = <<>>
  /\ net = <<>> /\ written = <<>> /\ delivered = <<>>
  /\ cs = <<>> /\ csOp = <<>>
  /\ drv = <<>> /\ scn = <<>> /\ dropped = FALSE

\* the calls are those of one party: the buffers of the other are other
\* objects and stay as they are
NextNametags ==
  BufferPop("alice") \/ BufferDelete("alice") \/ BufferCheckNametag("alice")

SpecNametags == InitNametags /\ [][NextNametags]_vars

(***************************************************************************)
(* WakuPairing (pairing.ts)                                                *)
(***************************************************************************)

\* new QR(applicationName, applicationVersion, shardId, ephemeralKey,
\* committedStaticKey), the first three being the same in every run
QR(ephemeralKey, committedStaticKey) ==
  [ephemeralKey |-> ephemeralKey, committedStaticKey |-> committedStaticKey]

\* QR.toByteArray
toByteArray(qr) == <<"qr", qr.ephemeralKey, qr.committedStaticKey>>

\* the constructor's randomFixLenVal = randomBytes(32) and
\* myCommittedStaticKey
RandomFixLenValOf(p) == IF p = "alice" THEN Rnd(7) ELSE Rnd(8)
MyCommittedStaticKey(p) == commitPublicKey(StaticKeyOf(p).publicKey, RandomFixLenValOf(p))

\* the responder's QR, which the initiator is constructed with, and the
\* responder's qrMessageNameTag = randomBytes(16)
PairingQR == QR(EphemeralKeyOf("bob").publicKey, MyCommittedStaticKey("bob"))
QrMessageNameTag == <<"nt", 1>>

\* the Handshake the constructor makes: an instance of the classes the
\* driver imports, revision "spec"
PairingHandshake(p) ==
  [Construct(14, toByteArray(PairingQR), p).hs EXCEPT !.revision = "spec"]

\* the WakuPairing object after construction, with the position of its
\* driver: started is the field of that name, timer the setTimeout of
\* execute, outcome the promise execute returns, confirmation the promise
\* isAuthCodeConfirmed returns, validated what the user has passed to
\* validateAuthCode, stopLoop and expected the variables of
\* executeReadStepWithNextMessage, authCode the code emitted with
\* authCodeGenerated and authCodeAt the msgPatternIdx it was generated at,
\* transportMessage that of the last step read, tampered whether a message
\* to the party was altered on its way, thisAuthCode the field authCode,
\* getAuthCode the promise the last call of getAuthCode returned,
\* executeCalls the number of calls of execute and executeErr what the last
\* of them threw
\* the most messages of other origin that reach the subscription of a party
MaxStray == 1

\* the last message executeReadStepWithNextMessage took from the
\* subscription: whether it carried the expected nametag, the pattern index
\* and the symmetric state before stepHandshake, the pending outcome before
\* it, the error of stepHandshake, and whether the message before it was
\* skipped
NoMessageRead ==
  [read |-> FALSE, tagged |-> TRUE, idx |-> 0, ss |-> Undef, outcome |-> "pending",
   err |-> "", retry |-> FALSE]

MessageRead(p, tagged, r, d) ==
  [read |-> TRUE, tagged |-> tagged, idx |-> p.msgPatternIdx, ss |-> p.ss,
   outcome |-> d.outcome, err |-> r.err,
   retry |-> d.lastRead.read /\ ~d.lastRead.tagged]

NewWakuPairing ==
  [started |-> FALSE, pc |-> "new", timer |-> "off", outcome |-> "pending",
   subscribed |-> FALSE, confirmation |-> "none", validated |-> "none",
   stopLoop |-> FALSE, expected |-> Undef, authCode |-> Undef,
   transportMessage |-> Undef, initiatorCommittedStaticKey |-> Undef,
   strays |-> 0, lastRead |-> NoMessageRead, authCodeAt |-> -1, tampered |-> FALSE,
   thisAuthCode |-> Undef, getAuthCode |-> "uncalled",
   executeCalls |-> 0, executeErr |-> ""]

Users == {"confirms", "declines", "absent"}

\* the WakuPairing objects of one pairing, and around each party: whether
\* it calls execute, what its user does with the authcode, whether the value it reveals with
\* its static key is another than the one it committed to (a peer need not
\* be this program), and whether its timeout is long enough never to
\* expire first
InitPairing ==
  /\ scn \in [Party -> [joins : BOOLEAN, user : Users, cheats : BOOLEAN,
                        patient : BOOLEAN]]
  /\ scn["alice"].patient = scn["bob"].patient
  /\ drv = [p \in Party |-> NewWakuPairing]
  /\ hs = [p \in Party |-> PairingHandshake(p)]
  /\ dropped = FALSE
  /\ sent = <<>>
  /\ net = [p \in Party |-> <<>>]
  /\ hsr = [p \in Party |-> NewHandshakeResult]
  /\ finalized = [p \in Party |-> FALSE]
  /\ calls = [p \in Party |-> 0]
  /\ stepErr = [p \in Party |-> ""]
  /\ lastStep = [p \in Party |-> NoStep(hs[p])]
  /\ written = [p \in Party |-> 0]
  /\ delivered = [p \in Party |-> <<>>]
  /\ lastRead = [p \in Party |-> NoRead]
  /\ cs = <<>> /\ csOp = <<>>

\* what no step of the driver changes
pairingFrame == <<cs, csOp, calls, stepErr, lastStep, written, delivered, lastRead, scn>>

\* the value p sends along with its static key
Reveal(p) == IF scn[p].cheats THEN Rnd(9) ELSE RandomFixLenValOf(p)

\* handshakeFn settles with o: the promise of execute takes it unless the
\* timeout has rejected it before, and finally clears the timer
Settle(d, o) ==
  [d EXCEPT !.pc = "done",
            !.outcome = IF @ = "pending" THEN o ELSE @,
            !.timer = IF @ = "armed" THEN "cleared" ELSE @]

\* a step that changes the driver of p only
DriverStep(p, d) ==
  /\ drv' = [drv EXCEPT ![p] = d]
  /\ UNCHANGED <<hs, net, sent, dropped, hsr, finalized, pairingFrame>>

\* the setTimeout callback of execute: reject and emit pairingTimeout, to
\* which isAuthCodeConfirmed and executeReadStepWithNextMessage listen
pairingTimeoutNoReject(d) ==
  [d EXCEPT !.timer = "fired",
            !.confirmation = IF @ = "waiting" THEN "timeout" ELSE @,
            !.stopLoop = (@ \/ d.pc \in {"read1", "read2", "read3"})]

pairingTimeout(d) ==
  [d EXCEPT !.timer = "fired",
            !.outcome = IF @ = "pending" THEN "pairing has timed out" ELSE @,
            !.confirmation = IF @ = "waiting" THEN "timeout" ELSE @,
            !.stopLoop = (@ \/ d.pc \in {"read1", "read2", "read3"})]

\* the most calls of execute on one WakuPairing object
MaxExecuteCalls == 2

\* execute(timeoutMs) without the test of started
executeUnguarded(d) ==
  [d EXCEPT !.executeCalls = @ + 1, !.executeErr = "",
            !.started = TRUE, !.timer = "armed",
            !.subscribed = TRUE, !.pc = "subscribed"]

\* execute(timeoutMs): a second call throws; the first arms the timer and
\* starts the handshake, which runs up to its await of
\* toSubscriptionIterator
execute(d) ==
  IF d.started
  THEN [d EXCEPT !.executeCalls = @ + 1,
                 !.executeErr = "pairing already executed. Create new pairing object"]
  ELSE [d EXCEPT !.executeCalls = @ + 1, !.executeErr = "",
                 !.started = TRUE, !.timer = "armed",
                 !.subscribed = TRUE, !.pc = "subscribed"]

\* the first call of execute on the object of p
Execute(p) ==
  /\ scn[p].joins
  /\ ~drv[p].started
  /\ DriverStep(p, execute(drv[p]))

\* a later call of execute on the object of p
ExecuteAgain(p) ==
  /\ drv[p].started
  /\ drv[p].executeCalls < MaxExecuteCalls
  /\ DriverStep(p, execute(drv[p]))

\* the timer of p expires
Timeout(p) ==
  /\ ~scn[p].patient
  /\ drv[p].timer = "armed"
  /\ DriverStep(p, pairingTimeout(drv[p]))

\* validateAuthCode(valid) emits confirmAuthCode, which settles the
\* promise of isAuthCodeConfirmed if that is waiting
validateAuthCodeUnheard(d, valid) == [d EXCEPT !.validated = valid]

validateAuthCode(d, valid) ==
  [d EXCEPT !.validated = valid,
            !.confirmation = IF @ = "waiting" THEN valid ELSE @]

\* the user of p calls validateAuthCode once the code is shown
ValidateAuthCode(p) ==
  /\ scn[p].user # "absent"
  /\ drv[p].authCode # Undef
  /\ drv[p].validated = "none"
  /\ DriverStep(p, validateAuthCode(drv[p], IF scn[p].user = "confirms" THEN "true"
                                            ELSE "false"))

\* p has written a handshake message: r is what stepHandshake gave and ser
\* what serialize gave for its payload.  The message goes to the peer's
\* subscription if there is one, and p awaits sender.send at nextPc
Sent(p, r, ser, nextPc) ==
  /\ hs' = [hs EXCEPT ![p] = r.hs]
  /\ IF r.err # "" \/ ser.err # ""
     THEN /\ drv' = [drv EXCEPT ![p] = Settle(@, IF r.err # "" THEN r.err ELSE ser.err)]
          /\ UNCHANGED <<net, sent, dropped>>
     ELSE /\ drv' = [drv EXCEPT ![p].pc = nextPc]
          /\ sent' = Append(sent, [payload |-> r.payload2,
                                   nametag |-> r.payload2.messageNametag,
                                   by |-> p, idx |-> hs[p].msgPatternIdx])
          /\ net' = IF drv[Peer(p)].subscribed
                    THEN [net EXCEPT ![Peer(p)] = Append(@, ser.bytes)]
                    ELSE net
          /\ dropped' = (dropped \/ ~drv[Peer(p)].subscribed)
  /\ UNCHANGED <<hsr, finalized, pairingFrame>>

\* p publishes the payload written by the step that gave r
WriteAndSend(p, r, nextPc) ==
  \E ser \in {serialize(r.payload2)} : Sent(p, r, ser, nextPc)

\* p writes the handshake message it is at, with the transport message and
\* the nametag given, and publishes it
WriteStep(p, transportMessage, messageNametag, nextPc) ==
  \E r \in {stepHandshake(hs[p], DefaultPayloadV2, transportMessage, messageNametag,
                           FreshOf(p))} :
    WriteAndSend(p, r, nextPc)

\* p starts to wait for the next message with the nametag it expects
AwaitMessage(p, d, pc, expected) ==
  DriverStep(p, [d EXCEPT !.pc = pc, !.expected = expected, !.stopLoop = FALSE])

\* InitiatorBegins emitting the authcode before the first message is written
InitiatorBeginsCodeFirst(p) ==
  /\ drv[p].pc = "subscribed"
  /\ hs[p].initiator
  /\ DriverStep(p, [drv[p] EXCEPT !.pc = "confirming", !.confirmation = "waiting",
                                  !.authCode = genAuthcode(hs[p]),
                                  !.authCodeAt = hs[p].msgPatternIdx])

\* the subscription of the initiator is there: it writes and sends the
\* first message, that carries its committed static key
InitiatorBegins(p) ==
  /\ drv[p].pc = "subscribed"
  /\ hs[p].initiator
  /\ WriteStep(p, MyCommittedStaticKey(p), QrMessageNameTag, "sent1")

\* the subscription of the responder is there: it waits for the first
\* message
ResponderBegins(p) ==
  /\ drv[p].pc = "subscribed"
  /\ ~hs[p].initiator
  /\ AwaitMessage(p, drv[p], "read1", QrMessageNameTag)

\* sender.send has resolved
AfterSend(p) ==
  /\ drv[p].pc \in {"sent1", "sent2", "sent3"}
  /\ IF drv[p].pc = "sent1"
     THEN DriverStep(p, [drv[p] EXCEPT !.pc = "delay", !.confirmation = "waiting"])
     ELSE IF drv[p].pc = "sent2"
     THEN AwaitMessage(p, drv[p], "read3", hsToMessageNametag(hs[p]))
     ELSE /\ hsr' = [hsr EXCEPT ![p] = finalizeHandshake(hs[p])]
          /\ finalized' = [finalized EXCEPT ![p] = TRUE]
          /\ drv' = [drv EXCEPT ![p] = Settle(@, "resolved")]
          /\ UNCHANGED <<hs, net, sent, dropped, pairingFrame>>

\* emit("authCodeGenerated", authCode): the listener getAuthCode has
\* registered, if there is one, stores the code and resolves the promise
authCodeGenerated(d, authCode) ==
  [d EXCEPT !.authCode = authCode,
            !.thisAuthCode = IF d.getAuthCode = "pending" THEN authCode ELSE @,
            !.getAuthCode = IF @ = "pending" THEN "resolved" ELSE @]

\* the delay is over: the authcode is generated and emitted, and p awaits
\* the confirmation
AfterDelay(p) ==
  /\ drv[p].pc = "delay"
  /\ DriverStep(p, authCodeGenerated([drv[p] EXCEPT !.pc = "confirming",
                                                    !.authCodeAt = hs[p].msgPatternIdx],
                                     genAuthcode(hs[p])))

\* the promise of isAuthCodeConfirmed has settled: without a confirmation
\* the handshake throws; with it the initiator waits for the second
\* message and the responder writes and sends it, with the value that
\* opens its commitment
Confirmed(p) ==
  /\ drv[p].pc = "confirming"
  /\ drv[p].confirmation \in {"true", "false", "timeout"}
  /\ IF drv[p].confirmation # "true"
     THEN DriverStep(p, Settle(drv[p], "authcode is not confirmed"))
     ELSE IF hs[p].initiator
     THEN AwaitMessage(p, drv[p], "read2", hsToMessageNametag(hs[p]))
     ELSE WriteStep(p, Reveal(p), hsToMessageNametag(hs[p]), "sent2")

\* the driver after a step read: the responder keeps the transport message
\* of the first message and goes on to the authcode; after the other
\* messages the subscription is stopped
AfterRead(d, r) ==
  IF d.pc = "read1"
  THEN [d EXCEPT !.pc = "delay", !.confirmation = "waiting",
                 !.transportMessage = r.transportMessage,
                 !.initiatorCommittedStaticKey = r.transportMessage]
  ELSE [d EXCEPT !.pc = "stop", !.subscribed = FALSE,
                 !.transportMessage = r.transportMessage]

\* ReadStepped with the catch clause throwing the MessageNametagError on
ReadSteppedThrowing(p, r, tagged) ==
  /\ hs' = [hs EXCEPT ![p] = r.hs]
  /\ net' = [net EXCEPT ![p] = Tail(@)]
  /\ drv' = [drv EXCEPT
               ![p] = [(IF r.err # "" THEN Settle(@, r.err) ELSE AfterRead(@, r))
                       EXCEPT !.lastRead = MessageRead(hs[p], tagged, r, drv[p])]]
  /\ UNCHANGED <<sent, dropped, hsr, finalized, pairingFrame>>

\* stepHandshake gave r for the message at the head of the subscription of
\* p: a MessageNametagError sends the loop of
\* executeReadStepWithNextMessage round, unless stopLoop ends it; any
\* other error is thrown on
ReadStepped(p, r, tagged) ==
  /\ hs' = [hs EXCEPT ![p] = r.hs]
  /\ net' = [net EXCEPT ![p] = Tail(@)]
  /\ drv' = [drv EXCEPT
               ![p] = [(IF r.err = "MessageNametagError"
                        THEN (IF @.stopLoop
                              THEN Settle(@, "could not obtain next message")
                              ELSE @)
                        ELSE IF r.err # "" THEN Settle(@, r.err)
                        ELSE AfterRead(@, r))
                       EXCEPT !.lastRead = MessageRead(hs[p], tagged, r, drv[p])]]
  /\ UNCHANGED <<sent, dropped, hsr, finalized, pairingFrame>>

\* the message at the head of the subscription of p deserialized to d
ReadDeserialized(p, d) ==
  IF d.err # ""
  THEN /\ drv' = [drv EXCEPT ![p] = Settle(@, d.err)]
       /\ net' = [net EXCEPT ![p] = Tail(@)]
       /\ UNCHANGED <<hs, sent, dropped, hsr, finalized, pairingFrame>>
  ELSE \E r \in {stepHandshake(hs[p], d.payload, Empty, drv[p].expected, FreshOf(p))} :
         ReadStepped(p, r, d.payload.messageNametag = toMessageNametag(drv[p].expected))

\* iterator.next() gives p the next message of its subscription
ReadStep(p) ==
  /\ drv[p].pc \in {"read1", "read2", "read3"}
  /\ net[p] # <<>>
  /\ \E d \in {deserialize(Head(net[p]))} : ReadDeserialized(p, d)

\* the test of the initiator on the second message: the static key of the
\* responder and the transport message open the commitment of the QR
ResponderCommitmentUnchecked(rs, transportMessage, committedStaticKey) == TRUE

ResponderCommitmentOpens(rs, transportMessage, committedStaticKey) ==
  commitPublicKey(rs, transportMessage) = committedStaticKey

\* the test of the responder on the third message: the static key of the
\* initiator and the transport message open the commitment of the first
\* message
InitiatorCommitmentUnchecked(rs, transportMessage, committedStaticKey) == TRUE

InitiatorCommitmentOpens(rs, transportMessage, committedStaticKey) ==
  commitPublicKey(rs, transportMessage) = committedStaticKey

\* the subscription of the initiator is stopped: it tests the commitment of
\* the responder, and writes and sends the third message with the value
\* that opens its own
InitiatorReveals(p) ==
  /\ drv[p].pc = "stop"
  /\ hs[p].initiator
  /\ IF hs[p].rs = Undef
     THEN DriverStep(p, Settle(drv[p], "invalid handshake state"))
     ELSE IF ~ResponderCommitmentOpens(hs[p].rs, drv[p].transportMessage,
                                       PairingQR.committedStaticKey)
     THEN DriverStep(p, Settle(drv[p], "expected committed static key does not match the responder actual committed static key"))
     ELSE WriteStep(p, Reveal(p), hsToMessageNametag(hs[p]), "sent3")

\* the subscription of the responder is stopped: it tests the commitment
\* of the initiator, finalizes the handshake and stores the result
ResponderFinishes(p) ==
  /\ drv[p].pc = "stop"
  /\ ~hs[p].initiator
  /\ IF hs[p].rs = Undef
     THEN DriverStep(p, Settle(drv[p], "invalid handshake state"))
     ELSE IF ~InitiatorCommitmentOpens(hs[p].rs, drv[p].transportMessage,
                                       drv[p].initiatorCommittedStaticKey)
     THEN DriverStep(p, Settle(drv[p], "expected committed static key does not match the initiator actual committed static key"))
     ELSE /\ hsr' = [hsr EXCEPT ![p] = finalizeHandshake(hs[p])]
          /\ finalized' = [finalized EXCEPT ![p] = TRUE]
          /\ drv' = [drv EXCEPT ![p] = Settle(@, "resolved")]
          /\ UNCHANGED <<hs, net, sent, dropped, pairingFrame>>

\* the steps of party p: its calls, its timer, its user and the
\* continuations of its handshake
\* a message of other origin reaches the subscription of p while p waits:
\* a message of another session on the content topic, with the nametag of
\* that session and otherwise like the last message sent, or the last
\* message of p itself coming back
Stray(p) ==
  /\ drv[p].subscribed
  /\ drv[p].pc \in {"read1", "read2", "read3"}
  /\ drv[p].strays < MaxStray
  /\ \E i \in 1..Len(sent), foreign \in BOOLEAN :
       /\ foreign \/ sent[i].by = p
       /\ \A j \in (i + 1)..Len(sent) : ~foreign /\ sent[j].by # p
       /\ \E ser \in {serialize(IF foreign
                                  THEN [sent[i].payload EXCEPT !.messageNametag = <<"nt", 2>>]
                                  ELSE sent[i].payload)} :
            /\ ser.err = ""
            /\ net' = [net EXCEPT ![p] = Append(@, ser.bytes)]
  /\ drv' = [drv EXCEPT ![p].strays = @ + 1]
  /\ UNCHANGED <<hs, sent, dropped, hsr, finalized, pairingFrame>>

Drive(p) ==
  \/ Execute(p)
  \/ Timeout(p)
  \/ ValidateAuthCode(p)
  \/ InitiatorBegins(p)
  \/ ResponderBegins(p)
  \/ AfterSend(p)
  \/ AfterDelay(p)
  \/ Confirmed(p)
  \/ ReadStep(p)
  \/ InitiatorReveals(p)
  \/ ResponderFinishes(p)

NextPairing == \E p \in Party : Drive(p)

SpecPairing == InitPairing /\ [][NextPairing]_vars

\* a pairing on a content topic that carries other messages too
NextPairingStray ==
  \E p \in Party :
    \/ Drive(p)
    \/ Stray(p)

\* both parties call execute and reveal the values they committed to
InitPairingStray ==
  /\ InitPairing
  /\ \A p \in Party : scn[p].joins /\ ~scn[p].cheats

SpecPairingStray == InitPairingStray /\ [][NextPairingStray]_vars

\* a byte of the transport message of the second handshake message is
\* flipped on its way to the initiator
TamperSecond(p) ==
  /\ hs[p].initiator
  /\ hs[p].msgPatternIdx = 1
  /\ ~drv[p].tampered
  /\ net[p] # <<>>
  /\ net' = [net EXCEPT ![p] = <<[Head(@) EXCEPT ![5] = <<"flip", @>>]>> \o Tail(@)]
  /\ drv' = [drv EXCEPT ![p].tampered = TRUE]
  /\ UNCHANGED <<hs, sent, dropped, hsr, finalized, pairingFrame>>

\* a pairing with an adversary on the content topic
NextPairingTampered ==
  \E p \in Party :
    \/ Drive(p)
    \/ TamperSecond(p)

SpecPairingTampered == InitPairingStray /\ [][NextPairingTampered]_vars

\* getAuthCode(): the promise resolves at once if the field authCode is
\* set, and else with the next authCodeGenerated event
getAuthCode(d) ==
  [d EXCEPT !.getAuthCode = IF d.thisAuthCode # Undef THEN "resolved" ELSE "pending"]

\* the application of p calls getAuthCode, unless a call of it is waiting
GetAuthCode(p) ==
  /\ drv[p].getAuthCode # "pending"
  /\ DriverStep(p, getAuthCode(drv[p]))

\* a pairing whose applications ask for the authcode when they like
NextPairingAuthCode ==
  \E p \in Party :
    \/ Drive(p)
    \/ GetAuthCode(p)

SpecPairingAuthCode ==
  /\ InitPairingStray
  /\ [][NextPairingAuthCode]_vars
  /\ \A p \in Party : WF_vars(Drive(p))

\* a pairing whose applications call execute again
NextPairingExecutedAgain ==
  \E p \in Party :
    \/ Drive(p)
    \/ ExecuteAgain(p)

SpecPairingExecutedAgain == InitPairingStray /\ [][NextPairingExecutedAgain]_vars

\* every continuation that is ready runs, a timer that is armed and not
\* cleared expires, a party that joins calls execute and a user that is
\* there answers
SpecPairingFair == SpecPairing /\ \A p \in Party : WF_vars(Drive(p))

(***************************************************************************)
(* Pairing properties                                                      *)
(***************************************************************************)

\* the promise of execute of p is rejected
Failed(p) == drv[p].outcome \notin {"pending", "resolved"}

\* the initiator has published the third handshake message
InitiatorSentThird == \E i \in 1..Len(sent) : sent[i].by = "alice" /\ sent[i].idx = 2

\* both parties call execute as this program does, their users confirm the
\* authcode and no timeout expires first
HappyPath ==
  \A p \in Party :
    scn[p].joins /\ scn[p].user = "confirms" /\ scn[p].patient /\ ~scn[p].cheats

SecondMessageOpensQR ==
  commitPublicKey(hs["alice"].rs, drv["alice"].transportMessage)
    = PairingQR.committedStaticKey

\* C5: the initiator sends the third handshake message and stores a
\* handshake result only if the static key and the transport message of the
\* second message open the commitment of the QR; when they do not, execute
\* rejects, the third message is never sent and no result is stored.
C5_InitiatorChecksCommitment ==
  /\ (InitiatorSentThird \/ finalized["alice"]) => SecondMessageOpensQR
  /\ (hs["alice"].msgPatternIdx >= 2 /\ ~SecondMessageOpensQR) =>
       /\ ~InitiatorSentThird
       /\ ~finalized["alice"]
       /\ drv["alice"].outcome # "resolved"
       /\ drv["alice"].pc = "done" => Failed("alice")

C5_Witness ==
  /\ InitiatorSentThird
  /\ finalized["alice"]
  /\ drv["alice"].outcome = "resolved"
  /\ SecondMessageOpensQR

\* the static key the responder has read in the third message and the
\* transport message of that message open the commitment the responder has
\* kept from the first message
ThirdMessageOpensFirst ==
  commitPublicKey(hs["bob"].rs, drv["bob"].transportMessage)
    = drv["bob"].initiatorCommittedStaticKey

\* C6: the responder finalizes the handshake and stores a handshake result
\* only if the static key and the transport message of the third message
\* open the commitment it received as the transport message of the first
\* message; when they do not, execute rejects and no result is stored.
C6_ResponderChecksCommitment ==
  /\ finalized["bob"] =>
       /\ hs["bob"].msgPatternIdx = 3
       /\ drv["bob"].initiatorCommittedStaticKey = MyCommittedStaticKey("alice")
       /\ ThirdMessageOpensFirst
  /\ (hs["bob"].msgPatternIdx = 3 /\ ~ThirdMessageOpensFirst) =>
       /\ ~finalized["bob"]
       /\ drv["bob"].outcome # "resolved"
       /\ drv["bob"].pc = "done" => Failed("bob")

C6_Witness ==
  /\ finalized["bob"]
  /\ drv["bob"].outcome = "resolved"
  /\ ThirdMessageOpensFirst

\* C7: whenever both parties have generated their authcode, which the
\* driver does after the first handshake message, the two codes are equal.
C7_AuthcodesEqual ==
  (\A p \in Party : drv[p].authCode # Undef) => drv["alice"].authCode = drv["bob"].authCode

C7_Witness ==
  /\ \A p \in Party : drv[p].authCode # Undef
  /\ drv["alice"].authCode = drv["bob"].authCode
  /\ hs["alice"].msgPatternIdx = 1
  /\ hs["bob"].msgPatternIdx = 1

\* C8: once both parties have their authcode and the user of one of them
\* calls validateAuthCode(false), while no timeout expires, execute of both
\* parties ends rejected with the error of the unconfirmed authcode.
C8_BothRejected ==
  ((\A p \in Party : drv[p].authCode # Undef /\ scn[p].patient)
     /\ (\E p \in Party : drv[p].validated = "false"))
    ~> (\A p \in Party : drv[p].outcome = "authcode is not confirmed")

\* C9, as stated: when a party has called execute with a timeout that
\* expires and its peer never sends a handshake message, its execute
\* rejects with 'pairing has timed out'.
C9_TimeoutAsStated ==
  \A p \in Party :
    (drv[p].started /\ ~scn[p].patient /\ ~scn[Peer(p)].joins)
      ~> (drv[p].outcome = "pairing has timed out")

\* C9, amended: when a party has called execute with a timeout that
\* expires, its peer never sends a handshake message and its user does not
\* decline the authcode, its execute rejects with 'pairing has timed out'.
C9_Timeout ==
  \A p \in Party :
    (drv[p].started /\ ~scn[p].patient /\ ~scn[Peer(p)].joins
       /\ scn[p].user # "declines")
      ~> (drv[p].outcome = "pairing has timed out")

C9_Witness ==
  \E p \in Party :
    /\ drv[p].started /\ ~scn[p].patient /\ ~scn[Peer(p)].joins
    /\ scn[p].user # "declines"
    /\ drv[p].timer = "fired"
    /\ drv[p].outcome = "pairing has timed out"

NonceOps == {"encryptWithAd", "decryptWithAd"}

\* C10, as stated: on a CipherState with a non-empty key and a nonce below
\* the cap, every successful encryptWithAd and every successful
\* decryptWithAd increases the nonce by exactly 1, and no other operation
\* of the CipherState changes the nonce.
C10_NonceStepAsStated ==
  (csOp.keyed /\ csOp.before < MAX_NONCE) =>
    /\ (csOp.op \in NonceOps /\ csOp.err = "") => cs.n = csOp.before + 1
    /\ csOp.op \notin NonceOps => cs.n = csOp.before

\* C10, amended: on a CipherState with a non-empty key and a nonce below the
\* cap, every successful encryptWithAd and every successful decryptWithAd
\* increases the nonce by exactly 1, and no other operation except setNonce
\* changes the nonce.
C10_NonceStep ==
  (csOp.keyed /\ csOp.before < MAX_NONCE) =>
    /\ (csOp.op \in NonceOps /\ csOp.err = "") => cs.n = csOp.before + 1
    /\ csOp.op \notin (NonceOps \cup {"setNonce"}) => cs.n = csOp.before

\* a successful encryptWithAd on a keyed state has moved a nonzero nonce
\* below the cap up by one
C10_Witness ==
  /\ csOp.op = "encryptWithAd" /\ csOp.err = "" /\ csOp.keyed
  /\ csOp.before > 0 /\ csOp.before < MAX_NONCE
  /\ cs.n = csOp.before + 1

\* C11: when decryptWithAd on a CipherState with a non-empty key fails the
\* AEAD authentication, it throws and leaves the key and the nonce of the
\* CipherState as they were before the call.
C11_FailedDecryptKeepsState ==
  (csOp.op = "decryptWithAd" /\ csOp.keyed /\ NonceValid(csOp.before)
     /\ chaCha20Poly1305Decrypt(csOp.arg, csOp.before, csOp.ad, csOp.kBefore) = Undef) =>
    /\ csOp.err = "decrypt"
    /\ cs.k = csOp.kBefore
    /\ cs.n = csOp.before

\* a decryptWithAd at a nonzero nonce was refused for its tag
C11_Witness ==
  /\ csOp.op = "decryptWithAd" /\ csOp.keyed /\ csOp.err = "decrypt"
  /\ csOp.before > 0 /\ cs.n = csOp.before /\ cs.k = csOp.kBefore

\* C12, as stated: on a CipherState whose key is empty encryptWithAd
\* returns its plaintext and decryptWithAd returns its ciphertext, and both
\* leave the nonce as it was.
C12_EmptyKeyPassesAsStated ==
  (csOp.op \in NonceOps /\ ~csOp.keyed) =>
    /\ csOp.err = ""
    /\ csOp.out = csOp.arg
    /\ cs.n = csOp.before

\* C12, amended: on a CipherState whose key is empty and whose nonce
\* assertValue accepts, encryptWithAd returns its plaintext and
\* decryptWithAd returns its ciphertext, and both leave the nonce as it was.
C12_EmptyKeyPasses ==
  (csOp.op \in NonceOps /\ ~csOp.keyed /\ NonceValid(csOp.before)) =>
    /\ csOp.err = ""
    /\ csOp.out = csOp.arg
    /\ cs.n = csOp.before

\* an encryptWithAd under the empty key at a nonzero nonce returned its
\* argument
C12_Witness ==
  /\ csOp.op = "encryptWithAd" /\ ~csOp.keyed /\ csOp.err = ""
  /\ csOp.before > 0 /\ csOp.out = csOp.arg /\ cs.n = csOp.before

\* C13: with the nonce of a keyed CipherState at 2^32 (one above the
\* largest value assertValue accepts), every encryptWithAd and every
\* decryptWithAd fails on the nonce, however often it is repeated, and
\* leaves the key and the nonce as they were.
C13_ExhaustedStaysExhausted ==
  (csOp.op \in NonceOps /\ csOp.keyed /\ csOp.before = MAX_NONCE + 1) =>
    /\ csOp.err = "nonce"
    /\ cs.k = csOp.kBefore
    /\ cs.n = csOp.before

\* the third call in a row has failed on the nonce at 2^32
C13_Witness ==
  /\ csOp.op \in NonceOps /\ csOp.keyed /\ csOp.before = MAX_NONCE + 1
  /\ csOp.err = "nonce" /\ csOp.streak = MaxStreak
  /\ cs.n = MAX_NONCE + 1

\* C14, as stated: on a keyed CipherState whose nonce is 2^32 - 1 (the
\* largest value assertValue accepts) one more encryptWithAd succeeds and
\* returns a ciphertext, and the encryptWithAd after it fails on the nonce.
C14_OneMoreSendAsStated ==
  /\ (csOp.op = "encryptWithAd" /\ csOp.keyed /\ csOp.before = MAX_NONCE) =>
       (csOp.err = "" /\ csOp.out # Undef)
  /\ (csOp.op = "encryptWithAd" /\ csOp.keyed /\ csOp.before = MAX_NONCE + 1) =>
       csOp.err = "nonce"

\* C14, amended: on a keyed CipherState whose nonce is 2^32 - 2 one more
\* encryptWithAd succeeds, returns a ciphertext and leaves the nonce at
\* 2^32 - 1; the encryptWithAd after it, at 2^32 - 1, fails on the nonce,
\* returns nothing and leaves the nonce at 2^32.
C14_OneMoreSend ==
  /\ (csOp.op = "encryptWithAd" /\ csOp.keyed /\ csOp.before = MAX_NONCE - 1) =>
       (csOp.err = "" /\ csOp.out # Undef /\ cs.n = MAX_NONCE)
  /\ (csOp.op = "encryptWithAd" /\ csOp.keyed /\ csOp.before = MAX_NONCE) =>
       (csOp.err = "nonce" /\ csOp.out = Undef /\ cs.n = MAX_NONCE + 1)

\* the encryptWithAd at 2^32 - 1 has failed on the nonce, right after a
\* call that did not
C14_Witness ==
  /\ csOp.op = "encryptWithAd" /\ csOp.keyed /\ csOp.before = MAX_NONCE
  /\ csOp.err = "nonce" /\ csOp.streak = 1

HandshakeAgreement ==
  /\ hs["alice"].ss.ck = hs["bob"].ss.ck
  /\ hs["alice"].ss.h = hs["bob"].ss.h
  /\ hsr["alice"].csOutbound.k = hsr["bob"].csInbound.k
  /\ hsr["bob"].csOutbound.k = hsr["alice"].csInbound.k

\* C1: when the initiator and the responder each run stepHandshake once per
\* message pattern on the other's untampered payloads, every call handles
\* its message pattern, and once both have handled all patterns and called
\* finalizeHandshake their chaining keys and handshake hashes are equal and
\* the outbound key of each is the inbound key of the other.
C1_HandshakeAgreement ==
  /\ \A p \in Party :
       calls[p] <= NumPatterns(hs[p]) => hs[p].msgPatternIdx = calls[p]
  /\ (\A p \in Party : finalized[p] /\ hs[p].msgPatternIdx = NumPatterns(hs[p]))
       => HandshakeAgreement

\* C16: a reading stepHandshake whose payload carries another nametag than
\* the expected one throws a MessageNametagError and changes neither
\* msgPatternIdx nor the symmetric state, and the call made next with the
\* payload under the expected nametag succeeds.
C16_MistaggedReadIsSkipped ==
  \A p \in Party :
    lastStep[p].kind = "read" =>
      /\ ~lastStep[p].tagged =>
           /\ lastStep[p].err = "MessageNametagError"
           /\ hs[p].msgPatternIdx = lastStep[p].idx
           /\ hs[p].ss = lastStep[p].ss
      /\ (lastStep[p].tagged /\ lastStep[p].intact /\ lastStep[p].retry
            /\ \A q \in Party : ~lastStep[q].tampered /\ lastStep[q].intact)
           => lastStep[p].err = ""

\* C18: msgPatternIdx is 0 at first and never decreases; a stepHandshake
\* call that returns with a message pattern handled increases it by
\* exactly 1, and the k-th such call handles the k-th message pattern; a
\* call that throws, and a call made after the last message pattern, leave
\* it as it was.
C18_MsgIdxCounts ==
  \A p \in Party :
    /\ lastStep[p].kind = "none" => hs[p].msgPatternIdx = 0
    /\ hs[p].msgPatternIdx >= lastStep[p].idx
    /\ (lastStep[p].kind \in {"write", "read"} /\ lastStep[p].err = "") =>
         /\ hs[p].msgPatternIdx = lastStep[p].idx + 1
         /\ lastStep[p].handled = lastStep[p].idx + 1
    /\ lastStep[p].err # "" => hs[p].msgPatternIdx = lastStep[p].idx
    /\ lastStep[p].kind \in {"after", "finalize"} =>
         hs[p].msgPatternIdx = lastStep[p].idx

\* a party has handled its last message pattern with its last call, one of
\* its calls before having thrown
C18_Witness ==
  \E p \in Party :
    /\ lastStep[p].kind \in {"write", "read"} /\ lastStep[p].err = ""
    /\ lastStep[p].handled = NumPatterns(hs[p])
    /\ hs[p].msgPatternIdx = NumPatterns(hs[p])
    /\ calls[p] = NumPatterns(hs[p]) + 1

\* C21: a stepHandshake call made when msgPatternIdx has reached the number
\* of message patterns returns the empty step result without an error and
\* leaves msgPatternIdx, the key pairs, the remote keys and the symmetric
\* state as they were, however often it is repeated.
C21_AfterLastChangesNothing ==
  \A p \in Party :
    lastStep[p].kind = "after" =>
      /\ lastStep[p].err = ""
      /\ lastStep[p].empty
      /\ hs[p].msgPatternIdx = lastStep[p].idx
      /\ hs[p].ss = lastStep[p].ss
      /\ <<hs[p].e, hs[p].s, hs[p].re, hs[p].rs>> = lastStep[p].keys

\* a party has called stepHandshake after its last message pattern twice
\* in a row
C21_Witness ==
  \E p \in Party :
    /\ lastStep[p].kind = "after" /\ lastStep[p].again
    /\ lastStep[p].idx = NumPatterns(hs[p])
    /\ lastStep[p].empty

\* C19: finalizeHandshake succeeds only when msgPatternIdx equals the
\* number of message patterns; at any other index it fails and yields
\* neither cipher states nor nametag buffers.
C19_FinalizeOnlyAtEnd ==
  \A p \in Party :
    (lastStep[p].kind = "finalize" /\ lastStep[p].idx # NumPatterns(hs[p])) =>
      /\ lastStep[p].err # ""
      /\ hsr[p] = NewHandshakeResult

\* C20: once a stepHandshake call of a party has thrown from the tokens of
\* its message pattern, every later stepHandshake and finalizeHandshake
\* call of that party is rejected.
C20_PoisonedAfterTokenError ==
  \A p \in Party :
    (lastStep[p].poisoned /\ lastStep[p].kind # "none") => lastStep[p].err # ""

(***************************************************************************)
(* Secure transfer properties                                              *)
(***************************************************************************)


C3_AtMostOncePerNametag ==
  \A p \in Party :
    \A i, j \in 1..Len(delivered[p]) :
      delivered[p][i].nametag = delivered[p][j].nametag => i = j

\* a party that accepted two payloads was handed an accepted payload again
\* and turned it down
C3_Witness ==
  \E p \in Party :
    /\ Len(delivered[p]) >= 2
    /\ ~lastRead[p].accepted
    /\ \E i \in 1..Len(delivered[p]) : delivered[p][i].nametag = lastRead[p].nametag

\* what the spec has checkNametag report
NametagOK == [kind |-> "OK"]
OutOfOrder(skipped) == [kind |-> "OutOfOrder", skipped |-> skipped]
NotFound == [kind |-> "NotFound"]

\* what a caller of checkNametag is handed: the boolean it returns
Reported(check) ==
  IF check.err # "" THEN [kind |-> check.err]
  ELSE IF check.ok THEN NametagOK ELSE [kind |-> "false"]

\* the messages of its peer that p had not accepted when the last payload
\* it was handed was written: those lost since p was in step
Lost(p) == lastRead[p].n - lastRead[p].had - 1

\* C22: when a receiver that has accepted every message so far loses the
\* next k messages and is handed the one after, checkNametag reports OK for
\* k = 0, OutOfOrder with skipped = k for 1 <= k <= 49 and NotFound for
\* k >= 50.
C22_LossIsReported ==
  \A p \in Party :
    lastRead[p] # NoRead =>
      Reported(lastRead[p].check) =
        IF Lost(p) = 0 THEN NametagOK
        ELSE IF Lost(p) < MessageNametagBufferSize THEN OutOfOrder(Lost(p))
        ELSE NotFound

\* the index checkNametag finds and does not return: 0 with nothing lost,
\* k with k messages lost, none from 50 lost messages on
NametagIndexTracksLoss ==
  \A p \in Party :
    lastRead[p] # NoRead =>
      /\ lastRead[p].index =
           IF Lost(p) < MessageNametagBufferSize THEN Lost(p) ELSE -1
      /\ lastRead[p].check = [err |-> "", ok |-> Lost(p) = 0]

\* a party was handed a payload after losing 50 or more
NametagLostFifty ==
  \E p \in Party : lastRead[p] # NoRead /\ Lost(p) >= MessageNametagBufferSize

\* C23: when the first message is lost, the reader handed the second one is
\* told OutOfOrder with skipped = 1; once it has deleted one nametag it
\* decodes the second message and obtains the plaintext written; and the
\* first message, handed over later, is reported as NotFound.
C23_DroppedMessageRecovery ==
  \A p \in Party :
    /\ lastRead[p].n = 2 /\ lastRead[p].head = 1 =>
         Reported(lastRead[p].check) = OutOfOrder(1)
    /\ lastRead[p].n = 2 /\ lastRead[p].head = 2 /\ lastRead[p].resynced = 1 =>
         /\ lastRead[p].accepted
         /\ delivered[p] # <<>>
         /\ delivered[p][Len(delivered[p])].out = Msg(Peer(p), 2)
    /\ lastRead[p].n = 1 /\ lastRead[p].head > 1 =>
         Reported(lastRead[p].check) = NotFound

\* a party that has deleted the nametag of a lost message decodes the
\* message it is handed next, if that is the one its buffer expects
ResyncedReadDecodes ==
  \A p \in Party :
    lastRead[p].resynced > 0 /\ lastRead[p].n = lastRead[p].head =>
      /\ lastRead[p].accepted
      /\ delivered[p] # <<>>
      /\ delivered[p][Len(delivered[p])].out = Msg(Peer(p), lastRead[p].n)

\* a message from before the first nametag in the buffer is not found in it
LateMessageNotInBuffer ==
  \A p \in Party :
    lastRead[p].n >= 1 /\ lastRead[p].n < lastRead[p].head =>
      /\ lastRead[p].index = -1
      /\ lastRead[p].check = [err |-> "", ok |-> FALSE]
      /\ ~lastRead[p].accepted

\* a party was handed the first message after it had deleted its nametag
LateMessageArrived ==
  \E p \in Party :
    lastRead[p].n = 1 /\ lastRead[p].head > 1 /\ Len(delivered[p]) = 0

\* C24: on a buffer without a secret, after any pop and delete calls, pop
\* returns the all-zero nametag and checkNametag matches no nametag, the
\* all-zero one included.
C24_NoSecretNoMatch ==
  \A p \in Party :
    /\ lastRead[p].op = "pop" => lastRead[p].out = <<"zero16">>
    /\ lastRead[p].op = "checkNametag" => lastRead[p].err = "" /\ ~lastRead[p].ok

\* the buffer without a secret stays 50 all-zero nametags; pop returns the
\* all-zero nametag; checkNametag returns true for the all-zero nametag and
\* false for any other
NoSecretMatchesZero ==
  \A p \in Party :
    /\ \A which \in Buffers : hsr[p][which] = NewMessageNametagBuffer
    /\ lastRead[p].op = "pop" => lastRead[p].out = <<"zero16">>
    /\ lastRead[p].op = "checkNametag" =>
         /\ lastRead[p].err = ""
         /\ lastRead[p].ok <=> lastRead[p].arg = <<"zero16">>

\* checkNametag was called with the all-zero nametag as the last of the
\* calls of a party
NoSecretZeroChecked ==
  \E p \in Party :
    /\ lastRead[p].op = "checkNametag" /\ lastRead[p].arg = <<"zero16">>
    /\ calls[p] = MaxBufferCalls

\* C25: whatever payload the decoder is handed, it returns either nothing
\* or a message whose payload is the plaintext decrypted from it: when
\* deserialization, the nametag check or decryption fails it returns
\* nothing, and never a message with an empty or undecrypted payload.
C25_DecoderReturnsNothingOnFailure ==
  \A p \in Party :
    lastRead[p] # NoRead =>
      \/ ~lastRead[p].msg.defined
      \/ /\ lastRead[p].accepted
         /\ lastRead[p].altered = ""
         /\ lastRead[p].msg.payload = Msg(Peer(p), lastRead[p].n)

\* what the decoder does return: nothing when deserialize or the nametag
\* check throws, the plaintext when decryption succeeds, and a message with
\* an empty payload when the nametag is the expected one and the payload is
\* not decrypted
DecoderReturns ==
  \A p \in Party :
    lastRead[p] # NoRead =>
      /\ lastRead[p].msg.defined <=> lastRead[p].err = ""
      /\ lastRead[p].msg.defined =>
           /\ lastRead[p].check.ok
           /\ lastRead[p].msg.payload =
                IF lastRead[p].accepted THEN Msg(Peer(p), lastRead[p].n) ELSE Empty
      /\ lastRead[p].altered \in {"protocol", "nametag", "cut"} => lastRead[p].err # ""

\* the decoder was handed a payload with its transport message replaced and
\* the nametag it expected, and one it could make out as the next after it
\* had deleted the nametag of a lost message
DecoderFailuresSeen ==
  \E p \in Party :
    /\ lastRead[p] # NoRead
    /\ lastRead[p].check.ok /\ ~lastRead[p].accepted
    /\ \/ lastRead[p].altered = "sealed"
       \/ lastRead[p].altered = "" /\ lastRead[p].resynced > 0

CommitmentMismatch ==
  "expected committed static key does not match the responder actual committed static key"

\* the initiator has read the second handshake message after a byte of its
\* transport message was flipped
ReadTamperedSecond ==
  /\ drv["alice"].tampered
  /\ drv["alice"].lastRead.read
  /\ drv["alice"].lastRead.idx = 1
  /\ drv["alice"].lastRead.tagged

C27_AuthcodeAfterTwoAsStated ==
  \A p \in Party : drv[p].authCode # Undef => drv[p].authCodeAt >= 2

\* C27: a party generates the authcode when it has processed the first
\* handshake message and no other: the initiator has written it, the
\* responder has read it, and msgPatternIdx is 1.
C27_AuthcodeAfterFirst ==
  \A p \in Party :
    drv[p].authCode # Undef =>
      /\ drv[p].authCodeAt = 1
      /\ hs[p].msgPatternIdx >= 1
      /\ \E i \in 1..Len(sent) : sent[i].by = "alice" /\ sent[i].idx = 0

\* both parties have generated the authcode
C27_Witness ==
  \A p \in Party : drv[p].authCode # Undef /\ drv[p].authCodeAt = 1

\* PayloadV2.equals
PayloadEquals(a, b) ==
  /\ a.messageNametag = b.messageNametag
  /\ a.protocolId = b.protocolId
  /\ a.transportMessage = b.transportMessage
  /\ Len(a.handshakeMessage) = Len(b.handshakeMessage)
  /\ \A i \in 1..Len(a.handshakeMessage) :
       /\ a.handshakeMessage[i].flag = b.handshakeMessage[i].flag
       /\ a.handshakeMessage[i].pk = b.handshakeMessage[i].pk

\* C28: for every payload with a nametag of 16 bytes, a protocol id of the
\* table, keys that serialize to 255 bytes at most and a transport message
\* of any length, zero included, deserialize returns for its serialization
\* a payload equal to it.
C28_RoundTrip ==
  lastStep.op = "roundtrip" =>
    /\ lastStep.out.err = ""
    /\ PayloadEquals(lastStep.out.payload, lastStep.p)

\* the position at which deserialize reads the transport message length
LengthRead == KeysStart + lastStep.wire[6]

\* what the round trip gives: a RangeError when the transport message has
\* fewer bytes than the position of its length field less one; no transport
\* message when that position is 122 or more and a byte of the message
\* from its 121st on is 0; the payload otherwise
RoundTripOutcome ==
  lastStep.op = "roundtrip" =>
    LET tm == lastStep.p.transportMessage
    IN IF byteLength(tm) < LengthRead - 1
       THEN lastStep.out.err = "RangeError"
       ELSE /\ lastStep.out.err = ""
            /\ IF LengthRead >= 122 /\ tm[1] = "bytes" /\ tm[3] = 0
               THEN PayloadEquals(lastStep.out.payload,
                                  [lastStep.p EXCEPT !.transportMessage = Empty])
               ELSE PayloadEquals(lastStep.out.payload, lastStep.p)

\* a payload without keys and with a padded and sealed transport message
\* has come back as it was
RoundTripDone ==
  /\ lastStep.op = "roundtrip"
  /\ lastStep.p.transportMessage[1] = "aead"
  /\ lastStep.out.err = ""
  /\ PayloadEquals(lastStep.out.payload, lastStep.p)

\* the bytes that follow the two bytes of protocol id and key length
BytesAfterHeader == WireLength(lastStep.wire) - KeysStart

\* the declared lengths are those of the keys and the transport message
\* that the bytes hold
KeysAsDeclared == lastStep.wire[6] = serializedHandshakeMessageLen(lastStep.wire[4])

\* C29: deserialize rejects an input whose declared key length or declared
\* transport message length is more than the bytes that remain, and returns
\* no payload whose transport message is shorter than the declared length.
C29_LengthsChecked ==
  lastStep.op # "none" =>
    /\ lastStep.wire[6] > BytesAfterHeader => lastStep.out.err # ""
    /\ KeysAsDeclared /\ lastStep.wire[7] > byteLength(lastStep.wire[5]) =>
         lastStep.out.err # ""
    /\ KeysAsDeclared /\ lastStep.out.err = "" =>
         byteLength(lastStep.out.payload.transportMessage) >= lastStep.wire[7]

\* what deserialize does about the declared lengths: a key length beyond
\* the end is rejected, and so is any key length but the true one for these
\* inputs; a transport message length is never compared with what remains
DeclaredLengthsOutcome ==
  lastStep.op # "none" =>
    /\ lastStep.wire[6] > BytesAfterHeader => lastStep.out.err # ""
    /\ ~KeysAsDeclared => lastStep.out.err # ""
    /\ KeysAsDeclared =>
         (lastStep.out.err # "" <=> byteLength(lastStep.wire[5]) < LengthRead - 1)

\* deserialize has returned a payload whose transport message is shorter
\* than the length declared for it
ShortMessageReturned ==
  /\ lastStep.op = "forged"
  /\ KeysAsDeclared
  /\ lastStep.out.err = ""
  /\ byteLength(lastStep.out.payload.transportMessage) < lastStep.wire[7]

\* C30: the writer pads the transport message and then encrypts, the
\* reader decrypts and then unpads, so that the transport message the
\* reader is returned is the one that was passed to the writer.
C30_TransportMessageRoundTrip ==
  \A p \in Party :
    lastStep[p].kind = "read" =>
      /\ lastStep[p].err = ""
      /\ lastStep[p].returned = lastStep[p].passed

\* what the reader is returned: the transport message that was passed to
\* the writer, unpadded by the writer and padded by the reader
ReaderPadsWhatWriterUnpadded ==
  \A p \in Party :
    lastStep[p].kind = "read" =>
      /\ lastStep[p].err = ""
      /\ lastStep[p].returned = pkcs7pad(pkcs7unpad(lastStep[p].passed))

\* a transport message that was encrypted under a key has been read and is
\* not the one that was passed to the writer
ReaderReturnedAnother ==
  \E p \in Party :
    /\ lastStep[p].kind = "read"
    /\ lastStep[p].err = ""
    /\ hs[p].msgPatternIdx >= 2
    /\ hasKey(hs[p].ss.cs)
    /\ lastStep[p].returned # lastStep[p].passed

\* the buffer b holds the nametags of the 50 counter values that end before
\* its counter, the oldest first
HoldsWindow(b) ==
  /\ Len(b.buffer) = MessageNametagBufferSize
  /\ \A i \in 1..MessageNametagBufferSize :
       b.buffer[i] = DeriveNametag(b.secret, b.counter - MessageNametagBufferSize + i - 1)

\* every buffer that has a secret holds a window
WindowsHeld ==
  \A p \in Party, which \in Buffers :
    hsr[p][which].secret # Undef => HoldsWindow(hsr[p][which])

\* the last call of p was pop and returned the head, or was delete(n), and
\* moved the window of the buffer forward by Moved(n); a pop moves it by 1
WindowMovedBy(p, Moved(_)) ==
  LET c == lastRead[p]
      now == hsr[p][c.which]
  IN /\ c.op = "pop" =>
          c.out = c.before.buffer[1] /\ now.counter = c.before.counter + 1
     /\ c.op = "delete" => now.counter = c.before.counter + Moved(c.arg)

\* C31 as stated: the buffer holds a window of 50 consecutive nametags, pop
\* returns the head and moves the window by one, delete(n) moves it by n.
C31_WindowAsStated ==
  /\ WindowsHeld
  /\ \A p \in Party : WindowMovedBy(p, LAMBDA n : n)

\* C31: the buffer holds a window of 50 consecutive nametags, pop returns
\* the head and moves the window by one, delete(n) moves it by n when n is
\* from 0 to 50 and by 50 when n is more.
C31_Window ==
  /\ WindowsHeld
  /\ \A p \in Party : WindowMovedBy(p, LAMBDA n : Min(n, MessageNametagBufferSize))

\* a pop after the window has moved returned the nametag of the counter
\* value at the head, and a delete of more than 50 came before it
C31_Witness ==
  \E p \in Party :
    /\ lastRead[p].op = "pop"
    /\ lastRead[p].before.counter = 2 * MessageNametagBufferSize + 2
    /\ lastRead[p].out = DeriveNametag(lastRead[p].before.secret, MessageNametagBufferSize + 2)

\* the inbound (outbound) cipher state and nametag buffer of p are left as
\* they were
InboundUnchanged(p) ==
  /\ hsr'[p].csInbound = hsr[p].csInbound
  /\ hsr'[p].nametagsInbound = hsr[p].nametagsInbound

OutboundUnchanged(p) ==
  /\ hsr'[p].csOutbound = hsr[p].csOutbound
  /\ hsr'[p].nametagsOutbound = hsr[p].nametagsOutbound

\* C32: after finalization writeMessage leaves the inbound cipher state and
\* the inbound nametag buffer of the writer unchanged, readMessage leaves
\* the outbound cipher state and the outbound nametag buffer of the reader
\* unchanged, and neither touches what the other party holds.
C32_DirectionsIndependent ==
  [][\A p \in Party :
       /\ written'[p] # written[p] =>
            InboundUnchanged(p) /\ hsr'[Peer(p)] = hsr[Peer(p)]
       /\ (lastRead'[p] # lastRead[p] \/ delivered'[p] # delivered[p]) =>
            OutboundUnchanged(p) /\ hsr'[Peer(p)] = hsr[Peer(p)]
       /\ InboundUnchanged(p) \/ OutboundUnchanged(p)]_vars

\* a party has written two messages and accepted one, with both of its
\* cipher states keyed and at the nonces that tells
C32_Witness ==
  \E p \in Party :
    /\ written[p] = 2 /\ Len(delivered[p]) = 1
    /\ hasKey(hsr[p].csOutbound) /\ hasKey(hsr[p].csInbound)
    /\ hsr[p].csOutbound.n = 2 /\ hsr[p].csInbound.n = 1
    /\ hsr[p].nametagsOutbound.counter = MessageNametagBufferSize + 2
    /\ hsr[p].nametagsInbound.counter = MessageNametagBufferSize + 1

\* C33: once both parties of a pairing have processed handshake message 1,
\* or both message 2, toMessageNametag gives them the same nametag, and
\* the message after it that a party reads carries the nametag the reader
\* expects.
C33_NametagsAgree ==
  /\ (/\ hs["alice"].msgPatternIdx = hs["bob"].msgPatternIdx
      /\ hs["alice"].msgPatternIdx \in {1, 2}) =>
        hsToMessageNametag(hs["alice"]) = hsToMessageNametag(hs["bob"])
  /\ \A p \in Party :
       drv[p].lastRead.read /\ drv[p].lastRead.idx \in {1, 2} => drv[p].lastRead.tagged

\* both parties have processed message 2, the initiator by reading it under
\* the nametag derived after message 1, and hold the same next nametag,
\* which is not the one of the QR
C33_Witness ==
  /\ hs["alice"].msgPatternIdx = 2 /\ hs["bob"].msgPatternIdx = 2
  /\ drv["alice"].lastRead.read /\ drv["alice"].lastRead.idx = 1
  /\ drv["alice"].lastRead.tagged /\ drv["alice"].lastRead.err = ""
  /\ hsToMessageNametag(hs["alice"]) = hsToMessageNametag(hs["bob"])
  /\ hsToMessageNametag(hs["alice"]) # toMessageNametag(QrMessageNameTag)

\* the pattern of p has a name that the protocol id table does not hold
UnknownName(p) == hs[p].handshakePattern.name[2] \notin PatternIds

\* C34: a writing stepHandshake for a pattern whose name is not in the
\* protocol id table fails with "Handshake Pattern not supported": it
\* advances no pattern index and no payload comes of it.
C34_UnknownPatternFails ==
  \A p \in Party :
    UnknownName(p) /\ lastStep[p].kind = "write" =>
      /\ lastStep[p].err = "Handshake Pattern not supported"
      /\ hs[p].msgPatternIdx = lastStep[p].idx
      /\ \A i \in 1..Len(sent) : sent[i].by # p

\* what the writing side does for such a pattern: the step succeeds, the
\* pattern index advances, and the payload written has an undefined
\* protocol id, which serialize writes as the byte 0
UnknownPatternWrites ==
  \A p \in Party :
    UnknownName(p) /\ lastStep[p].kind = "write" =>
      /\ lastStep[p].err = ""
      /\ hs[p].msgPatternIdx = lastStep[p].idx + 1
      /\ \E i \in 1..Len(sent) :
           /\ sent[i].by = p /\ sent[i].idx = lastStep[p].idx
           /\ sent[i].payload.protocolId = -1
           /\ serialize(sent[i].payload).bytes[3] = 0

\* the initiator of a custom pattern has written its first message
UnknownPatternWritten ==
  /\ UnknownName("alice")
  /\ lastStep["alice"].kind = "write"
  /\ hs["alice"].msgPatternIdx = 1
  /\ Len(sent) >= 1

\* C35: the constructor works on a copy of the caller's preMessagePKs
\* array: the array is as the caller built it after any constructor, so
\* that the constructors of both parties succeed on the same array.
C35_CallerArrayUnchanged ==
  /\ scn.shifted = 0
  /\ \A p \in Party : lastStep[p].kind # "threw"

\* what the constructor does to the caller's array: it shifts off it every
\* key it processes, so that the first constructor of a pattern with
\* pre-messages leaves it empty and the second throws for want of a key
CallerArrayShifted ==
  LET n == Len(Flatten(NoiseHandshakePatterns(scn.id).preMessagePatterns))
      built == {p \in Party : lastStep[p].kind # "unbuilt"}
  IN /\ scn.shifted = IF built = {} THEN 0 ELSE n
     /\ \A p \in Party :
          lastStep[p].kind = "threw" =>
            /\ n > 0
            /\ stepErr[p] = "noise pre-message read, expected a public key"
     /\ built = Party /\ n > 0 => \E p \in Party : lastStep[p].kind = "threw"

\* the second constructor of a pairing has thrown on the array the first
\* one emptied
SecondConstructorThrew ==
  /\ scn.id = 14
  /\ lastStep["alice"].kind \notin {"unbuilt", "threw"}
  /\ lastStep["bob"].kind = "threw"
  /\ scn.shifted = 1

\* C36: once execute() of p has rejected with the pairing timeout, the
\* driver of p makes no further handshake step, sends no further handshake
\* message and stores no handshake result.
C36_AbandonedAfterTimeout ==
  [][\A p \in Party :
       drv[p].timer = "fired" =>
         /\ hs'[p] = hs[p]
         /\ Len(sent') = Len(sent) \/ sent'[Len(sent')].by # p
         /\ hsr'[p] = hsr[p]
         /\ finalized'[p] = finalized[p]]_vars

\* what the timeout does: the promise of execute() stays rejected with the
\* timeout whatever the driver does later, and a driver that is waiting
\* for the confirmation of the authcode ends there
TimedOutStaysRejected ==
  [][\A p \in Party :
       drv[p].timer = "fired" =>
         /\ drv[p].outcome = "pairing has timed out"
         /\ drv'[p].outcome = drv[p].outcome
         /\ drv[p].pc = "confirming" /\ drv[p].confirmation = "timeout" =>
              drv'[p].pc \in {"confirming", "done"} /\ hs'[p] = hs[p]]_vars

\* the driver of a party has stored a handshake result after its
\* execute() rejected with the timeout
ResultStoredAfterTimeout ==
  \E p \in Party :
    /\ drv[p].timer = "fired"
    /\ drv[p].outcome = "pairing has timed out"
    /\ finalized[p]
    /\ hs[p].msgPatternIdx = 3

\* the number of nametags that have left the head of the buffer b
Consumed(b) == b.counter - MessageNametagBufferSize

\* C37 as stated: after any writeMessage and readMessage calls the number
\* of nametags popped from the outbound buffer is the nonce of csOutbound,
\* and the number consumed from the inbound buffer is that of csInbound.
C37_LockstepAsStated ==
  \A p \in Party :
    /\ Consumed(hsr[p].nametagsOutbound) = hsr[p].csOutbound.n
    /\ Consumed(hsr[p].nametagsInbound) = hsr[p].csInbound.n

\* C37: the number consumed from the inbound buffer is the nonce of
\* csInbound; the number popped from the outbound buffer is the nonce of
\* csOutbound as long as that nonce is valid, and once it is exhausted
\* every further writeMessage pops a nametag and leaves the nonce.
C37_Lockstep ==
  \A p \in Party :
    /\ Consumed(hsr[p].nametagsInbound) = hsr[p].csInbound.n
    /\ IF NonceValid(hsr[p].csOutbound.n)
       THEN Consumed(hsr[p].nametagsOutbound) = hsr[p].csOutbound.n
       ELSE /\ hsr[p].csOutbound.n = MAX_NONCE + 1
            /\ Consumed(hsr[p].nametagsOutbound) = written[p]
            /\ written[p] >= hsr[p].csOutbound.n

\* a party has written three messages, its peer has accepted two of them
\* and rejected an altered copy of the third, and both stand where their
\* buffers do
C37_Witness ==
  \E p \in Party :
    /\ written[p] = 3 /\ hsr[p].csOutbound.n = 3
    /\ Consumed(hsr[p].nametagsOutbound) = 3
    /\ Len(delivered[Peer(p)]) = 2 /\ hsr[Peer(p)].csInbound.n = 2
    /\ Consumed(hsr[Peer(p)].nametagsInbound) = 2
    /\ lastRead[Peer(p)] # NoRead
    /\ lastRead[Peer(p)].altered # "" /\ ~lastRead[Peer(p)].accepted

\* the step is a read of p that was not accepted
RejectedRead(p) ==
  /\ lastRead'[p] # lastRead[p]
  /\ ~lastRead'[p].accepted

\* the payload pl carries the nametag at the head of the inbound buffer of p
HeadOfInbound(p, pl) == pl[2] = hsr[p].nametagsInbound.buffer[1]

\* C38: a payload that readMessage does not accept, for its nametag, its
\* protocol id or a failed decryption, changes neither the inbound cipher
\* state nor the inbound nametag buffer, and the genuine message that is
\* next in order is accepted whatever was rejected before.
C38_RejectedReadChangesNothing ==
  /\ [][\A p \in Party : RejectedRead(p) => InboundUnchanged(p)]_vars
  /\ [](\A p \in Party :
          \A pl \in net[p] : HeadOfInbound(p, pl) => DecodeSecure(hsr[p], pl).accepted)

\* the last payload handed to a party that has accepted one message was the
\* second with its transport message replaced; it was rejected, and the
\* genuine second message is accepted now
C38_Witness ==
  \E p \in Party :
    /\ lastRead[p] # NoRead
    /\ lastRead[p].altered = "sealed" /\ ~lastRead[p].accepted
    /\ lastRead[p].index = 0
    /\ Len(delivered[p]) = 1 /\ hsr[p].csInbound.n = 1
    /\ \E pl \in net[p] :
         HeadOfInbound(p, pl) /\ pl[2] = lastRead[p].nametag
                           /\ DecodeSecure(hsr[p], pl).accepted

\* C39: a call of getAuthCode resolves with the authcode of the pairing
\* once that is generated, whether the call came before the
\* authCodeGenerated event or after it.
C39_GetAuthCodeResolves ==
  \A p \in Party :
    (drv[p].getAuthCode # "uncalled" /\ drv[p].authCode # Undef)
      ~> (drv[p].getAuthCode = "resolved" /\ drv[p].thisAuthCode = drv[p].authCode)

\* a call that is waiting when the event is emitted resolves with the code
\* emitted
EarlyCallResolves ==
  [][\A p \in Party :
       (drv[p].getAuthCode = "pending" /\ drv[p].authCode = Undef
                                      /\ drv'[p].authCode # Undef)
         => (drv'[p].getAuthCode = "resolved"
             /\ drv'[p].thisAuthCode = drv'[p].authCode)]_vars

\* a call that finds the event already emitted and the field unset waits
\* from then on
LateCallStaysPending ==
  [][\A p \in Party :
       (drv[p].getAuthCode = "pending" /\ drv[p].authCode # Undef)
         => drv'[p].getAuthCode = "pending"]_vars

\* the handshake of a party has resolved while its call of getAuthCode waits
LateCallPending ==
  \E p \in Party :
    /\ drv[p].getAuthCode = "pending" /\ drv[p].authCode # Undef
    /\ drv[p].outcome = "resolved"

\* the step is a call of execute on the object of p
ExecuteCalled(p) == drv'[p].executeCalls # drv[p].executeCalls

\* C40: a WakuPairing object runs its handshake at most once: the first
\* call of execute starts the driver, and every later call fails with
\* "pairing already executed" and changes nothing of the driver, the
\* handshake or the messages, whether the first run is pending, has
\* completed or has failed.
C40_ExecutedOnce ==
  [][\A p \in Party :
       ExecuteCalled(p) =>
         IF drv[p].started
         THEN /\ drv'[p] = [drv[p] EXCEPT
                              !.executeCalls = @ + 1,
                              !.executeErr =
                                "pairing already executed. Create new pairing object"]
              /\ UNCHANGED <<hs, hsr, finalized, net, sent>>
         ELSE /\ drv'[p].started /\ drv'[p].executeErr = ""
              /\ drv'[p].pc = "subscribed" /\ drv'[p].timer = "armed"]_vars

\* execute has been refused on the object of one party after its first run
\* resolved, and on that of the other after its first run failed
C40_Witness ==
  /\ \E p \in Party :
       /\ drv[p].executeCalls = 2 /\ drv[p].executeErr # ""
       /\ drv[p].outcome = "resolved" /\ finalized[p]
  /\ \E p \in Party :
       /\ drv[p].executeCalls = 2 /\ drv[p].executeErr # ""
       /\ drv[p].outcome \notin {"resolved", "pending"}

====
